---- MODULE Spec2Model ----
(***************************************************************************)
(* Model of the schema-adaptive query engine of sfhbot:                    *)
(*   SchemaIntrospector      (server/utils/SchemaIntrospector.ts)          *)
(*   QueryValidationService  (server/utils/QueryValidationService.ts)      *)
(*   DynamicQueryBuilder     (server/utils/DynamicQueryBuilder.ts)         *)
(*   ImprovedSmartQueryService (services/ImprovedSmartQueryService.ts)     *)
(*                                                                         *)
(* Text is modelled as a sequence of one-character strings, so that        *)
(* equality, case folding, substring tests and tokenisation are computed   *)
(* and not assumed.  Time is in milliseconds.                              *)
(***************************************************************************)
EXTENDS Integers, Sequences, FiniteSets, TLC

VARIABLES
  now,          \* Date.now(), in ms
  dbTables,     \* the base tables the catalog currently lists (a set of names)
  schemaCache,  \* SchemaIntrospector.schemaCache (Null or a DatabaseSchema)
  caller,       \* per concurrent getSchema call: its position and locals
  lastEvent,    \* what the getSchema step just taken did and returned
  race,         \* history: per call, whether another discovery overlapped it
  lastWrite,    \* history: the discovery pass that assigned the cache last
  sync,         \* history: which passes listed the catalog as it is now
  lastServed,   \* history: the cached snapshot last returned by getSchema(false)
  expected,     \* history: what the call just made should return, if known
  queryResults, \* the QueryResult[] handed to combineQueryResults
  combined,     \* what combineQueryResults returned for it (Null before the call)
  search,       \* one call of DynamicQueryBuilder.searchTable: inputs, result, queries
  builderCache, \* schemaCache of the SchemaIntrospector the query builder owns
  svc,          \* ImprovedSmartQueryService: initialisation state and isAvailable
  req,          \* the smartSearch request in progress (Null when none)
  call,         \* one call of a function of the utilities: its name and arguments
  returned,     \* what that call returned (Null before the call)
  flow,         \* the stages of one smartSearch call (Null when none)
  dss           \* the DatabaseSchemaService and the calls on it (Null when none)

schemaVars == <<now, dbTables, schemaCache, caller, lastEvent>>
writeHist == <<race, lastWrite, sync>>
readHist == <<lastServed, expected>>

combineVars == <<queryResults, combined>>

searchVars == <<search, builderCache>>
pipeVars == <<svc, req>>
utilVars == <<call, returned>>
flowVars == <<flow>>
dssVars == <<dss>>

vars == <<schemaVars, writeHist, readHist, combineVars, searchVars, pipeVars, utilVars, flowVars, dssVars>>

\* null: every nullable value of the model is a record
Null == [isNull |-> TRUE]

-----------------------------------------------------------------------------
(* Text                                                                    *)

\* The characters of the table, column and field names.
CharTable ==
  ("id" :> <<"i","d">>)
  @@ ("uuid" :> <<"u","u","i","d">>)
  @@ ("title" :> <<"t","i","t","l","e">>)
  @@ ("content" :> <<"c","o","n","t","e","n","t">>)
  @@ ("Excerpt" :> <<"E","x","c","e","r","p","t">>)
  @@ ("created_at" :> <<"c","r","e","a","t","e","d","_","a","t">>)
  @@ ("piano_title" :> <<"p","i","a","n","o","_","t","i","t","l","e">>)
  @@ ("artist_name" :> <<"a","r","t","i","s","t","_","n","a","m","e">>)
  @@ ("views" :> <<"v","i","e","w","s">>)
  @@ ("pianos" :> <<"p","i","a","n","o","s">>)
  @@ ("news" :> <<"n","e","w","s">>)
  @@ ("audit" :> <<"a","u","d","i","t">>)
  @@ ("role" :> <<"r","o","l","e">>)
  @@ ("posts" :> <<"p","o","s","t","s">>)
  @@ ("users" :> <<"u","s","e","r","s">>)
  @@ ("events" :> <<"e","v","e","n","t","s">>)
  @@ ("chat_log" :> <<"c","h","a","t","_","l","o","g">>)

Chars(s) == CharTable[s]

(* String literals, as sequences of characters                             *)

\* the keywords and name patterns the program matches against
Word ==
  [ title |-> <<"t","i","t","l","e">>,
    name |-> <<"n","a","m","e">>,
    content |-> <<"c","o","n","t","e","n","t">>,
    description |-> <<"d","e","s","c","r","i","p","t","i","o","n">>,
    excerpt |-> <<"e","x","c","e","r","p","t">>,
    text |-> <<"t","e","x","t">>,
    body |-> <<"b","o","d","y">>,
    knowledge |-> <<"k","n","o","w","l","e","d","g","e">>,
    document |-> <<"d","o","c","u","m","e","n","t">>,
    article |-> <<"a","r","t","i","c","l","e">>,
    chat |-> <<"c","h","a","t">>,
    message |-> <<"m","e","s","s","a","g","e">>,
    conversation |-> <<"c","o","n","v","e","r","s","a","t","i","o","n">>,
    log |-> <<"l","o","g">>,
    user |-> <<"u","s","e","r">>,
    session |-> <<"s","e","s","s","i","o","n">>,
    profile |-> <<"p","r","o","f","i","l","e">>,
    account |-> <<"a","c","c","o","u","n","t">>,
    piano |-> <<"p","i","a","n","o">>,
    instrument |-> <<"i","n","s","t","r","u","m","e","n","t">>,
    music |-> <<"m","u","s","i","c">>,
    news |-> <<"n","e","w","s">>,
    post |-> <<"p","o","s","t">>,
    event |-> <<"e","v","e","n","t">>,
    activity |-> <<"a","c","t","i","v","i","t","y">>,
    activation |-> <<"a","c","t","i","v","a","t","i","o","n">>,
    schedule |-> <<"s","c","h","e","d","u","l","e">>,
    info |-> <<"i","n","f","o">> ]

\* the query types
QueryType ==
  [ news_search |-> <<"n","e","w","s","_","s","e","a","r","c","h">>,
    article_search |-> <<"a","r","t","i","c","l","e","_","s","e","a","r","c","h">>,
    knowledge_search |-> <<"k","n","o","w","l","e","d","g","e","_","s","e","a","r","c","h">>,
    document_search |-> <<"d","o","c","u","m","e","n","t","_","s","e","a","r","c","h">>,
    user_search |-> <<"u","s","e","r","_","s","e","a","r","c","h">>,
    profile_search |-> <<"p","r","o","f","i","l","e","_","s","e","a","r","c","h">>,
    broad_search |-> <<"b","r","o","a","d","_","s","e","a","r","c","h">>,
    general_search |-> <<"g","e","n","e","r","a","l","_","s","e","a","r","c","h">>,
    general |-> <<"g","e","n","e","r","a","l">>,
    piano_search |-> <<"p","i","a","n","o","_","s","e","a","r","c","h">>,
    error |-> <<"e","r","r","o","r">>,
    validation_error |-> <<"v","a","l","i","d","a","t","i","o","n","_","e","r","r","o","r">>,
    chat_search |-> <<"c","h","a","t","_","s","e","a","r","c","h">> ]

\* the error messages, and the fragments error messages are searched for
Message ==
  [ Table_does_not_exist |-> <<"T","a","b","l","e"," ","'","u","n","k","n","o","w","n","'"," ","d","o","e","s"," ","n","o","t"," ","e","x","i","s","t">>,
    Column_does_not_exist |-> <<"C","o","l","u","m","n"," ","d","o","e","s"," ","n","o","t"," ","e","x","i","s","t"," ","i","n"," ","t","a","b","l","e"," ","'","u","n","k","n","o","w","n","'">>,
    Insufficient_permissions |-> <<"I","n","s","u","f","f","i","c","i","e","n","t"," ","p","e","r","m","i","s","s","i","o","n","s"," ","t","o"," ","a","c","c","e","s","s"," ","'","r","e","s","o","u","r","c","e","'">>,
    Query_was_canceled |-> <<"Q","u","e","r","y"," ","w","a","s"," ","c","a","n","c","e","l","e","d"," ","d","u","e"," ","t","o"," ","t","i","m","e","o","u","t">>,
    Database_connection_failed |-> <<"D","a","t","a","b","a","s","e"," ","c","o","n","n","e","c","t","i","o","n"," ","f","a","i","l","e","d">>,
    Database_error |-> <<"D","a","t","a","b","a","s","e"," ","e","r","r","o","r",":"," ">>,
    Unknown_error |-> <<"U","n","k","n","o","w","n"," ","e","r","r","o","r">>,
    permission |-> <<"p","e","r","m","i","s","s","i","o","n">>,
    Permission_denied |-> <<"P","e","r","m","i","s","s","i","o","n"," ","d","e","n","i","e","d",":"," ">>,
    timeout |-> <<"t","i","m","e","o","u","t">>,
    timed_out |-> <<"t","i","m","e","d"," ","o","u","t">>,
    Request_timed_out |-> <<"R","e","q","u","e","s","t"," ","t","i","m","e","d"," ","o","u","t",":"," ">>,
    network |-> <<"n","e","t","w","o","r","k">>,
    connection |-> <<"c","o","n","n","e","c","t","i","o","n">>,
    Network_error |-> <<"N","e","t","w","o","r","k"," ","e","r","r","o","r",":"," ">>,
    An_unknown_error_occurred |-> <<"A","n"," ","u","n","k","n","o","w","n"," ","e","r","r","o","r"," ","o","c","c","u","r","r","e","d">>,
    does_not_exist |-> <<"d","o","e","s"," ","n","o","t"," ","e","x","i","s","t">>,
    connection_refused_by_host |-> <<"c","o","n","n","e","c","t","i","o","n"," ","r","e","f","u","s","e","d"," ","b","y"," ","d","b","-","1",".","i","n","t","e","r","n","a","l">>,
    permission_denied_for_role |-> <<"p","e","r","m","i","s","s","i","o","n"," ","d","e","n","i","e","d"," ","f","o","r"," ","r","o","l","e"," ","a","n","o","n">>,
    connection_failure |-> <<"c","o","n","n","e","c","t","i","o","n"," ","f","a","i","l","u","r","e">>,
    permission_denied_for_table |-> <<"p","e","r","m","i","s","s","i","o","n"," ","d","e","n","i","e","d"," ","f","o","r"," ","t","a","b","l","e">>,
    substring_is_not_a_function |-> <<"r","e","s","u","l","t",".","c","o","n","t","e","n","t",".","s","u","b","s","t","r","i","n","g"," ","i","s"," ","n","o","t"," ","a"," ","f","u","n","c","t","i","o","n">> ]

\* the texts stored in the rows of the database, typed by the user and
\* extracted by the analysis
Stored ==
  [ p1 |-> <<"p","1">>,
    mozart |-> <<"m","o","z","a","r","t">>,
    anna |-> <<"a","n","n","a">>,
    p2 |-> <<"p","2">>,
    sonata |-> <<"s","o","n","a","t","a">>,
    Wolfgang_Mozart |-> <<"W","o","l","f","g","a","n","g"," ","M","o","z","a","r","t">>,
    n1 |-> <<"n","1">>,
    jazz_night |-> <<"j","a","z","z"," ","n","i","g","h","t">>,
    free_concert |-> <<"f","r","e","e"," ","c","o","n","c","e","r","t">>,
    n2 |-> <<"n","2">>,
    mozart_week |-> <<"m","o","z","a","r","t"," ","w","e","e","k">>,
    Mozart |-> <<"M","o","z","a","r","t">>,
    jazz |-> <<"j","a","z","z">>,
    wolfgang_mozart |-> <<"w","o","l","f","g","a","n","g"," ","m","o","z","a","r","t">>,
    zz |-> <<"z","z">>,
    two_quotes |-> <<"'","'">>,
    hi |-> <<"h","i">>,
    chat_info |-> <<"c","h","a","t"," ","i","n","f","o">> ]

Upper == <<"A","B","C","D","E","F","G","H","I","J","K","L","M",
           "N","O","P","Q","R","S","T","U","V","W","X","Y","Z">>
Lower == <<"a","b","c","d","e","f","g","h","i","j","k","l","m",
           "n","o","p","q","r","s","t","u","v","w","x","y","z">>

\* String.prototype.toLowerCase on one character
LowerChar(c) ==
  IF \E i \in 1..Len(Upper) : Upper[i] = c
  THEN Lower[CHOOSE i \in 1..Len(Upper) : Upper[i] = c]
  ELSE c

\* String.prototype.toLowerCase
RECURSIVE toLowerCase(_)
toLowerCase(s) ==
  IF s = <<>> THEN <<>> ELSE <<LowerChar(Head(s))>> \o toLowerCase(Tail(s))

\* String.prototype.includes
includes(s, sub) ==
  \E i \in 0..(Len(s) - Len(sub)) :
    \A j \in 1..Len(sub) : s[i + j] = sub[j]

-----------------------------------------------------------------------------
(* The database catalog (information_schema) the introspector reads        *)

TableNames == {"pianos", "news", "audit"}

\* the further tables of a larger database, for findRelevantTables on its own
MoreTables == {"posts", "users", "events", "chat_log"}

\* a table of the public schema that bears the name of a keyword
KeywordTables == {"role"}

\* information_schema.columns of each table, ordered by ordinal_position
ColumnsOf(t) ==
  CASE t = "pianos" -> << [column_name |-> "id", data_type |-> "uuid"],
                          [column_name |-> "piano_title", data_type |-> "text"],
                          [column_name |-> "artist_name", data_type |-> "text"],
                          [column_name |-> "created_at", data_type |-> "timestamp"] >>
    [] t = "news"   -> << [column_name |-> "id", data_type |-> "uuid"],
                          [column_name |-> "title", data_type |-> "text"],
                          [column_name |-> "content", data_type |-> "jsonb"],
                          [column_name |-> "Excerpt", data_type |-> "integer"],
                          [column_name |-> "created_at", data_type |-> "timestamp"] >>
    [] t = "audit"  -> << [column_name |-> "id", data_type |-> "integer"],
                          [column_name |-> "views", data_type |-> "integer"] >>
    [] t = "role"   -> << [column_name |-> "id", data_type |-> "integer"],
                          [column_name |-> "title", data_type |-> "text"],
                          [column_name |-> "created_at", data_type |-> "timestamp"] >>
    [] t = "posts"  -> << [column_name |-> "title", data_type |-> "text"] >>
    [] t = "users"  -> << [column_name |-> "id", data_type |-> "uuid"],
                          [column_name |-> "artist_name", data_type |-> "text"] >>
    [] t = "events" -> << [column_name |-> "id", data_type |-> "uuid"],
                          [column_name |-> "title", data_type |-> "text"] >>
    [] t = "chat_log" -> << [column_name |-> "views", data_type |-> "integer"] >>

TextTypes == {"text", "character varying", "varchar", "json", "jsonb"}

\* the filter of getTableSchema: text-like type or content-indicative name
IsSearchableColumn(col) ==
  \/ col.data_type \in TextTypes
  \/ \E w \in {Word.title, Word.name, Word.content, Word.description, Word.excerpt} :
       includes(toLowerCase(Chars(col.column_name)), w)

ColumnNamesOf(cols) == [i \in 1..Len(cols) |-> cols[i].column_name]

SearchableOf(cols) == ColumnNamesOf(SelectSeq(cols, IsSearchableColumn))

\* SchemaIntrospector.getTableSchema when the columns query succeeds with
\* the rows `cols` (no rows at all when the table is gone by then)
TableSchemaOf(t, cols, searchable) ==
  [ table_name |-> t,
    columns |-> cols,
    searchableColumns |-> searchable,
    hasFullText |-> \E i \in 1..Len(cols) :
                      cols[i].data_type = "tsvector" \/ Len(searchable) > 2 ]

getTableSchema(t, cols) == TableSchemaOf(t, cols, SearchableOf(cols))

\* getTableSchema of every table, while it exists and after it was dropped
\* (the columns query then returns no rows, and no error)
SchemaOfLive == [t \in TableNames \cup KeywordTables |-> getTableSchema(t, ColumnsOf(t))]
SchemaOfGone == [t \in TableNames \cup KeywordTables |-> getTableSchema(t, <<>>)]
IntrospectTable(t, tablesNow) == IF t \in tablesNow THEN SchemaOfLive[t] ELSE SchemaOfGone[t]

-----------------------------------------------------------------------------
(* SchemaIntrospector.getSchema, one step per resumption of the async call *)

Callers == {"c1", "c2"}

\* tables that exist throughout, and tables the environment creates and drops
StableTables == {"news"}
VolatileTables == {"pianos"}

MaxTicks == 2
cacheExpiry == 5 * 60 * 1000
\* the clock advances by one TTL at a time
TickMs == cacheExpiry

\* the rows of the catalog table-list query: the tables of S, in the one
\* order the catalog lists them in
CatalogList == <<"audit", "news", "pianos", "role">>
IsListed(S, t) == t \in S
TableList(S) == SelectSeq(CatalogList, LAMBDA t : IsListed(S, t))

\* no pass has listed the catalog yet
NoSync == [current |-> [p \in {"c1", "c2"} |-> FALSE],
           answered |-> [p \in {"c1", "c2"} |-> FALSE],
           inSync |-> FALSE, settled |-> FALSE]

IdleCaller == [pc |-> "idle", force |-> FALSE, todo |-> <<>>, tables |-> <<>>,
               listed |-> <<>>, skipped |-> {}]

NoEvent == [kind |-> "none"]

\* a DatabaseSchema object; `complete` records whether the loop that fills
\* the Map had ended when the object was made reachable
NewSchema(tables, t, complete) ==
  [tables |-> tables, lastUpdated |-> t, complete |-> complete]

CacheFreshStale(cache, forceRefresh, t) ==
  /\ cache # Null
  /\ ~forceRefresh
  /\ t - cache.lastUpdated > cacheExpiry

\* the guard of the early return: a cached schema, no forced refresh, within TTL
CacheFresh(cache, forceRefresh, t) ==
  /\ cache # Null
  /\ ~forceRefresh
  /\ t - cache.lastUpdated < cacheExpiry

FailedRefreshResultCached(cache, t) ==
  IF cache # Null THEN cache ELSE NewSchema(<<>>, t, TRUE)

\* the catch block: a fresh empty schema, whatever is cached
FailedRefreshResult(cache, t) == NewSchema(<<>>, t, TRUE)

CacheAfterStepEager(cache, tables, remaining, t) ==
  NewSchema(tables, t, remaining = <<>>)

\* this.schemaCache is assigned once, after the loop over tableData has ended
CacheAfterStep(cache, tables, remaining, t) ==
  IF remaining = <<>> THEN NewSchema(tables, t, TRUE) ELSE cache

InFlight(p) == caller[p].pc # "idle"

\* the Map `tables` after a getTableSchema call that loses what was set
\* before when it returns null
TablesAfterLosing(tables, schema, ok) == IF ok THEN Append(tables, schema) ELSE <<>>

\* if (schema) tables.set(table.table_name, schema)
TablesAfter(tables, schema, ok) == IF ok THEN Append(tables, schema) ELSE tables

\* getSchema(forceRefresh) up to its first await
Call(p, f) ==
  /\ caller[p].pc = "idle"
  /\ IF CacheFresh(schemaCache, f, now)
     THEN /\ lastEvent' = [kind |-> "hit", p |-> p, force |-> f, ret |-> schemaCache]
          /\ UNCHANGED caller
     ELSE /\ caller' = [caller EXCEPT ![p] = [IdleCaller EXCEPT !.pc = "tables", !.force = f]]
          /\ lastEvent' = [kind |-> "start", p |-> p, force |-> f]
  /\ UNCHANGED <<now, dbTables, schemaCache>>

\* the catalog table-list query returns
CatalogReply(p, ok) ==
  /\ caller[p].pc = "tables"
  /\ IF ~ok
     THEN /\ caller' = [caller EXCEPT ![p] = IdleCaller]
          /\ schemaCache' = schemaCache
          /\ lastEvent' = [kind |-> "failed", p |-> p, force |-> caller[p].force,
                           ret |-> FailedRefreshResult(schemaCache, now),
                           before |-> schemaCache]
     ELSE LET order == TableList(dbTables)
          IN
            /\ schemaCache' = CacheAfterStep(schemaCache, <<>>, order, now)
            /\ IF order = <<>>
               THEN /\ caller' = [caller EXCEPT ![p] = IdleCaller]
                    /\ lastEvent' = [kind |-> "finished", p |-> p,
                                     force |-> caller[p].force, ret |-> schemaCache',
                                     listed |-> <<>>, skipped |-> {}]
               ELSE /\ caller' = [caller EXCEPT ![p] =
                         [@ EXCEPT !.pc = "columns", !.todo = order,
                                   !.listed = order]]
                    /\ lastEvent' = NoEvent
  /\ UNCHANGED <<now, dbTables>>

\* the columns query of the next table of tableData returns
ColumnsReply(p, ok) ==
  /\ caller[p].pc = "columns"
  /\ LET t == Head(caller[p].todo)
         rest == Tail(caller[p].todo)
         schema == IntrospectTable(t, dbTables)
         tables == TablesAfter(caller[p].tables, schema, ok)
         skipped == IF ok THEN caller[p].skipped ELSE caller[p].skipped \cup {t}
     IN  /\ schemaCache' = CacheAfterStep(schemaCache, tables, rest, now)
         /\ IF rest = <<>>
            THEN /\ caller' = [caller EXCEPT ![p] = IdleCaller]
                 /\ lastEvent' = [kind |-> "finished", p |-> p,
                                  force |-> caller[p].force, ret |-> schemaCache',
                                  listed |-> caller[p].listed, skipped |-> skipped]
            ELSE /\ caller' = [caller EXCEPT ![p] =
                      [@ EXCEPT !.todo = rest, !.tables = tables,
                                !.skipped = skipped]]
                 /\ lastEvent' = NoEvent
  /\ UNCHANGED <<now, dbTables>>

\* SchemaIntrospector.clearCache
ClearCache ==
  /\ schemaCache # Null
  /\ schemaCache' = Null
  /\ lastEvent' = [kind |-> "cleared"]
  /\ UNCHANGED <<now, dbTables, caller>>

\* the environment creates or drops a table
DbChange(t) ==
  /\ dbTables' = IF t \in dbTables THEN dbTables \ {t} ELSE dbTables \cup {t}
  /\ lastEvent' = NoEvent
  /\ UNCHANGED <<now, schemaCache, caller>>

\* time passes
Tick ==
  /\ now + TickMs <= MaxTicks * TickMs
  /\ now' = now + TickMs
  /\ lastEvent' = NoEvent
  /\ UNCHANGED <<dbTables, schemaCache, caller>>

SchemaInit ==
  /\ now = 0
  /\ dbTables \in {StableTables \cup S : S \in SUBSET VolatileTables}
  /\ schemaCache = Null
  /\ caller = [p \in Callers |-> IdleCaller]
  /\ lastEvent = NoEvent
  /\ race = [p \in Callers |-> [raced |-> FALSE, beaten |-> FALSE]]
  /\ lastWrite = Null
  /\ sync = NoSync
  /\ lastServed = Null
  /\ expected = Null
  /\ queryResults = <<>>
  /\ combined = Null
  /\ search = Null
  /\ builderCache = Null
  /\ svc = Null
  /\ req = Null
  /\ call = Null
  /\ returned = Null
  /\ flow = Null
  /\ dss = Null

SchemaStep ==
  \/ \E p \in Callers, f \in BOOLEAN : Call(p, f)
  \/ \E p \in Callers, ok \in BOOLEAN : CatalogReply(p, ok)
  \/ \E p \in Callers, ok \in BOOLEAN : ColumnsReply(p, ok)
  \/ ClearCache
  \/ \E t \in VolatileTables : DbChange(t)
  \/ Tick

\* the table names of a list of table schemas
SchemaNames(tables) == [i \in 1..Len(tables) |-> tables[i].table_name]

(* History of the listings.  current[q]: the catalog has not changed since *)
(* the running pass q listed it; answered[q]: every columns query of the   *)
(* running pass q so far has answered; inSync: the step just taken ended a *)
(* pass with both; settled: such a pass has ended since the last change of *)
(* the catalog.                                                            *)
SyncAfter(ev) ==
  LET changed == dbTables' # dbTables
      listedBy(q) == /\ caller[q].pc = "tables"
                     /\ \/ caller'[q].pc = "columns"
                        \/ ev.kind = "finished" /\ ev.p = q
      done(q) == IF ev.kind = "finished" /\ ev.p = q THEN ev.ret.tables
                 ELSE caller'[q].tables
      unanswered(q) == /\ caller[q].pc = "columns"
                       /\ caller'[q] # caller[q]
                       /\ Len(done(q)) = Len(caller[q].tables)
      current(q) == IF changed THEN FALSE
                    ELSE IF listedBy(q) THEN TRUE ELSE sync.current[q]
      answered(q) == IF listedBy(q) THEN TRUE
                     ELSE IF unanswered(q) THEN FALSE ELSE sync.answered[q]
      inSync == ev.kind = "finished" /\ current(ev.p) /\ answered(ev.p)
  IN  [current |-> [q \in Callers |-> caller'[q].pc # "idle" /\ current(q)],
       answered |-> [q \in Callers |-> caller'[q].pc # "idle" /\ answered(q)],
       inSync |-> inSync,
       settled |-> IF changed THEN FALSE ELSE inSync \/ sync.settled]

(* History of the discovery passes: which passes overlapped, and which     *)
(* pass assigned the cache last.                                           *)
WriteHistory ==
  LET ev == lastEvent'
      began(q) == ev.kind = "start" /\ ev.p = q
      ended(q) == ev.kind \in {"finished", "failed"} /\ ev.p = q
      wrote(q) == ev.kind = "finished" /\ ev.p = q
  IN  /\ race' = [q \in Callers |->
           IF began(q)
           THEN [raced |-> \E r \in Callers \ {q} : InFlight(r), beaten |-> FALSE]
           ELSE IF ended(q)
           THEN [raced |-> FALSE, beaten |-> FALSE]
           ELSE IF InFlight(q) /\ \E r \in Callers \ {q} : began(r)
           THEN [race[q] EXCEPT !.raced = TRUE]
           ELSE IF InFlight(q) /\ \E r \in Callers \ {q} : wrote(r) /\ race[r].raced
           THEN [race[q] EXCEPT !.beaten = TRUE]
           ELSE race[q]]
      /\ lastWrite' =
           IF ev.kind = "finished"
           THEN [tables |-> ev.ret.tables, at |-> now,
                 overRival |-> /\ race[ev.p].beaten
                               /\ schemaCache # Null
                               /\ schemaCache.tables # ev.ret.tables]
           ELSE lastWrite
      /\ sync' = SyncAfter(ev)

(* History of the reads: the snapshot last handed to a getSchema(false)    *)
(* caller, and whether a forced refresh or any cache write came after it.  *)
ReadHistory ==
  LET ev == lastEvent'
      within == /\ lastServed # Null
                /\ now - lastServed.snap.lastUpdated < cacheExpiry
  IN  /\ expected' =
           IF ev.kind \in {"hit", "start"} /\ ~ev.force /\ within /\ ~lastServed.forced
           THEN [snap |-> lastServed.snap, quiet |-> ~lastServed.written]
           ELSE Null
      /\ lastServed' =
           CASE ev.kind = "hit" ->
                  [snap |-> ev.ret, forced |-> FALSE, written |-> FALSE]
             [] ev.kind = "finished" /\ lastServed = Null /\ ~ev.force ->
                  [snap |-> ev.ret, forced |-> FALSE, written |-> FALSE]
             [] ev.kind = "finished" /\ lastServed # Null ->
                  [lastServed EXCEPT !.forced = @ \/ ev.force, !.written = TRUE]
             [] ev.kind = "start" /\ ev.force /\ lastServed # Null ->
                  [lastServed EXCEPT !.forced = TRUE]
             [] ev.kind = "cleared" -> Null
             [] OTHER -> lastServed

SchemaNext == SchemaStep /\ WriteHistory /\ UNCHANGED <<readHist, combineVars, utilVars, flowVars, dssVars, searchVars, pipeVars>>

ReadsNext == SchemaStep /\ ReadHistory /\ UNCHANGED <<writeHist, combineVars, utilVars, flowVars, dssVars, searchVars, pipeVars>>

\* racing getSchema calls, with the history of the cache writes
SpecSchema == SchemaInit /\ [][SchemaNext]_vars

\* racing getSchema calls, with the history of the reads
SpecReads == SchemaInit /\ [][ReadsNext]_vars

-----------------------------------------------------------------------------
(* ImprovedSmartQueryService.combineQueryResults                           *)

\* JavaScript values of a row's fields
Undefined == [t |-> "undefined"]
Num(n) == [t |-> "number", v |-> n]
Str(cs) == [t |-> "string", v |-> cs]
\* a JSON object or array, as a json/jsonb column holds it
Obj == [t |-> "object"]

\* ToBoolean, as the operands of || are tested
Truthy(x) ==
  CASE x.t = "undefined" -> FALSE
    [] x.t = "number" -> x.v # 0
    [] x.t = "string" -> x.v # <<>>
    [] x.t = "object" -> TRUE

Digits == <<"0","1","2","3","4","5","6","7","8","9">>

\* JSON.stringify of one field value (numbers below ten, plain strings)
JsonValue(x) ==
  CASE x.t = "number" -> <<Digits[x.v + 1]>>
    [] x.t = "string" -> <<"\"">> \o x.v \o <<"\"">>
    [] x.t = "object" -> <<"{", "}">>

\* the keys a row can have, in the order the database returns them
FieldNames == <<"id", "uuid", "title", "content", "Excerpt",
               "piano_title", "artist_name", "created_at">>

\* a row object: the listed fields, every other key undefined
MkRow(f) ==
  [k \in {FieldNames[i] : i \in 1..Len(FieldNames)} |->
     IF k \in DOMAIN f THEN f[k] ELSE Undefined]

\* JSON.stringify(item): the fields in column order, undefined ones left out
RECURSIVE JsonFields(_, _, _)
JsonFields(item, i, first) ==
  IF i > Len(FieldNames) THEN <<>>
  ELSE LET k == FieldNames[i]
       IN  IF item[k].t = "undefined"
           THEN JsonFields(item, i + 1, first)
           ELSE (IF first THEN <<>> ELSE <<",">>)
                \o <<"\"">> \o Chars(k) \o <<"\"", ":">> \o JsonValue(item[k])
                \o JsonFields(item, i + 1, FALSE)

JsonStringify(item) == <<"{">> \o JsonFields(item, 1, TRUE) \o <<"}">>

IdPrefixLen == 50
MaxCombined == 25

\* String.prototype.substring(0, n)
Prefix(cs, n) == SubSeq(cs, 1, IF Len(cs) < n THEN Len(cs) ELSE n)

\* const id = item.id || item.uuid || JSON.stringify(item).substring(0, 50)
DerivedId(item) ==
  IF Truthy(item.id) THEN item.id
  ELSE IF Truthy(item.uuid) THEN item.uuid
  ELSE Str(Prefix(JsonStringify(item), IdPrefixLen))

HasError(qr) == qr.error # Null

\* a comparator that looks at the execution time alone
ComesBeforeFaster(a, b) == a.executionTimeMs < b.executionTimeMs

\* the comparator of the sort: more rows first, then the faster table
ComesBefore(a, b) ==
  IF Len(a.data) # Len(b.data) THEN Len(a.data) > Len(b.data)
  ELSE a.executionTimeMs < b.executionTimeMs

\* Array.prototype.sort (stable): insert x behind everything it does not precede
RECURSIVE InsertSorted(_, _)
InsertSorted(sorted, x) ==
  IF sorted = <<>> THEN <<x>>
  ELSE IF ComesBefore(x, Head(sorted)) THEN <<x>> \o sorted
  ELSE <<Head(sorted)>> \o InsertSorted(Tail(sorted), x)

RECURSIVE SortResults(_)
SortResults(qrs) ==
  IF qrs = <<>> THEN <<>>
  ELSE InsertSorted(SortResults(SubSeq(qrs, 1, Len(qrs) - 1)), qrs[Len(qrs)])

IsDuplicateNever(id, seenIds) == FALSE

LimitReachedNever(allResults) == FALSE

\* if (allResults.length >= 25) break
LimitReached(allResults) == Len(allResults) >= MaxCombined

\* seenIds.has(id)
IsDuplicate(id, seenIds) == id \in seenIds

WithMetadata(item, qr) ==
  [ item |-> item,
    _metadata |-> [ source_table |-> qr.tableName,
                    search_terms_used |-> qr.searchTermsUsed,
                    execution_time_ms |-> qr.executionTimeMs ] ]

\* the two nested loops: table ti, row ri, with allResults and seenIds so far
RECURSIVE CombineFrom(_, _, _, _, _)
CombineFrom(sorted, ti, ri, allResults, seenIds) ==
  IF ti > Len(sorted) THEN allResults
  ELSE IF ri > Len(sorted[ti].data)
       THEN IF LimitReached(allResults) THEN allResults
            ELSE CombineFrom(sorted, ti + 1, 1, allResults, seenIds)
  ELSE LET item == sorted[ti].data[ri]
           id == DerivedId(item)
           fresh == ~IsDuplicate(id, seenIds)
           out == IF fresh THEN Append(allResults, WithMetadata(item, sorted[ti]))
                  ELSE allResults
       IN  IF LimitReached(out) THEN out
           ELSE CombineFrom(sorted, ti, ri + 1, out,
                            IF fresh THEN seenIds \cup {id} ELSE seenIds)

combineQueryResults(qrs) ==
  IF qrs = <<>> THEN <<>>
  ELSE CombineFrom(SortResults(SelectSeq(qrs, LAMBDA qr : qr.data # <<>> /\ ~HasError(qr))),
                   1, 1, <<>>, {})

(* Inputs: the per-table results executeSearch can hand over.  A result    *)
(* that carries an error has no rows (DynamicQueryBuilder.ts:72-79).       *)

MaxRows == 3
LongTitleLen == 45

LongTitle(last) == [i \in 1..LongTitleLen |-> "a"] \o <<last>>

\* rows of the model: ids, a falsy id with a uuid, no id, no id and no uuid
RowPool ==
  << MkRow([id |-> Str(<<"a">>), title |-> Str(<<"p">>)]),
     MkRow([id |-> Str(<<"b">>), title |-> Str(<<"q">>)]),
     MkRow([id |-> Num(0), uuid |-> Str(<<"a">>), title |-> Str(<<"r">>)]),
     MkRow([uuid |-> Str(<<"u">>), title |-> Str(<<"s">>)]),
     MkRow([title |-> Str(LongTitle("x"))]),
     MkRow([title |-> Str(LongTitle("y"))]) >>

\* the rows of RowPool picked by S, in pool order
RowsOf(S) ==
  LET picked == SelectSeq([i \in 1..Len(RowPool) |-> i], LAMBDA i : i \in S)
  IN  [k \in 1..Len(picked) |-> RowPool[picked[k]]]

RowChoices == { S \in SUBSET (1..Len(RowPool)) : Cardinality(S) <= MaxRows }

TableResult(t, S, ms) ==
  [ data |-> RowsOf(S), tableName |-> t, searchTermsUsed |-> <<>>,
    columnsSearched |-> <<>>, executionTimeMs |-> ms, error |-> Null ]

FailedResult(t) ==
  [ data |-> <<>>, tableName |-> t, searchTermsUsed |-> <<>>,
    columnsSearched |-> <<>>, executionTimeMs |-> 1,
    error |-> [message |-> "fetch failed"] ]

\* n rows with the numeric ids from + 1 .. from + n
NumberedRows(from, n) == [i \in 1..n |-> MkRow([id |-> Num(from + i)])]

NumberedResult(t, from, n, ms) ==
  [ data |-> NumberedRows(from, n), tableName |-> t, searchTermsUsed |-> <<>>,
    columnsSearched |-> <<>>, executionTimeMs |-> ms, error |-> Null ]

\* three tables of 8 to 12 rows each; the second and third may repeat ids
\* of the table before them
ManyRowLists ==
  { <<NumberedResult("pianos", 0, n1, 5),
      NumberedResult("news", n1 - o2, n2, 4),
      NumberedResult("audit", n1 - o2 + n2 - o3, n3, 3)>> :
      n1 \in {8, 10, 12}, n2 \in {8, 10}, n3 \in {9, 10}, o2 \in {0, 3}, o3 \in {0, 2} }

ResultLists ==
  ManyRowLists \cup
  { <<TableResult("pianos", S1, 5), TableResult("news", S2, ms)>> :
      S1 \in RowChoices, S2 \in RowChoices, ms \in {3, 5} }
  \cup { <<TableResult("pianos", S1, 5), FailedResult("audit"), TableResult("news", S2, 3)>> :
      S1 \in RowChoices, S2 \in {{}, {1, 2, 5}} }
  \cup { <<>> }

CombineInit ==
  /\ queryResults \in ResultLists
  /\ combined = Null
  /\ now = 0
  /\ dbTables = {}
  /\ schemaCache = Null
  /\ caller = [p \in Callers |-> IdleCaller]
  /\ lastEvent = NoEvent
  /\ race = [p \in Callers |-> [raced |-> FALSE, beaten |-> FALSE]]
  /\ lastWrite = Null
  /\ sync = NoSync
  /\ lastServed = Null
  /\ expected = Null
  /\ search = Null
  /\ builderCache = Null
  /\ svc = Null
  /\ req = Null
  /\ call = Null
  /\ returned = Null
  /\ flow = Null
  /\ dss = Null

\* the call of combineQueryResults in smartSearch
Combine ==
  /\ combined = Null
  /\ combined' = [rows |-> combineQueryResults(queryResults)]
  /\ UNCHANGED <<queryResults, schemaVars, writeHist, readHist, searchVars, pipeVars, utilVars, flowVars, dssVars>>

SpecCombine == CombineInit /\ [][Combine]_vars

\* the derived identifiers of the rows of the error-free results
InputIds(qrs) ==
  UNION { { DerivedId(qrs[i].data[j]) : j \in 1..Len(qrs[i].data) } :
          i \in {i \in 1..Len(qrs) : ~HasError(qrs[i])} }

IdsOf(qr) == { DerivedId(qr.data[j]) : j \in 1..Len(qr.data) }

-----------------------------------------------------------------------------
(* SchemaIntrospector.getSchema run to completion, as the query builder    *)
(* and the service await it                                                *)

\* what the call returns, the cache it leaves, and the catalog queries it
\* issued; `ok` tells whether the database answers during the call
IntrospectAll(order, tables) ==
  [i \in 1..Len(order) |-> IntrospectTable(order[i], tables)]

Refreshed(new, order) ==
  [schema |-> new, cache |-> new,
   calls |-> <<"catalog">> \o [i \in 1..Len(order) |-> "columns"]]

GetSchema(cache, force, t, tables, ok) ==
  IF CacheFresh(cache, force, t)
  THEN [schema |-> cache, cache |-> cache, calls |-> <<>>]
  ELSE IF ~ok
  THEN [schema |-> FailedRefreshResult(cache, t), cache |-> cache,
        calls |-> <<"catalog">>]
  ELSE Refreshed(CacheAfterStep(cache, IntrospectAll(TableList(tables), tables), <<>>, t),
                 TableList(tables))

\* schema.tables.get(tableName)
HasTable(schema, t) == \E i \in 1..Len(schema.tables) : schema.tables[i].table_name = t
TableOf(schema, t) ==
  schema.tables[CHOOSE i \in 1..Len(schema.tables) : schema.tables[i].table_name = t]

\* SchemaIntrospector.getSearchableColumns, given the schema getSchema returned
\* the fallback of getSearchableColumns: columns named after a common pattern
CommonPatternColumns(columns) ==
  ColumnNamesOf(SelectSeq(columns, LAMBDA col :
    \E w \in {Word.title, Word.name, Word.content, Word.description, Word.text, Word.body} :
      includes(toLowerCase(Chars(col.column_name)), w)))

SearchableColumnsOf(table) ==
  IF Len(table.searchableColumns) > 0 THEN table.searchableColumns
  ELSE CommonPatternColumns(table.columns)

getSearchableColumns(schema, t) ==
  IF ~HasTable(schema, t) THEN <<>> ELSE SearchableColumnsOf(TableOf(schema, t))

-----------------------------------------------------------------------------
(* The rows of the tables, and the answers to the data queries             *)

\* the table role holds more rows than the user intents may return
RoleRows == 11

TableRows(t) ==
  CASE t = "pianos" ->
         << MkRow([id |-> Str(Stored.p1), piano_title |-> Str(Stored.mozart),
                   artist_name |-> Str(Stored.anna), created_at |-> Num(1)]),
            MkRow([id |-> Str(Stored.p2), piano_title |-> Str(Stored.sonata),
                   artist_name |-> Str(Stored.Wolfgang_Mozart), created_at |-> Num(2)]) >>
    [] t = "news" ->
         << MkRow([id |-> Str(Stored.n1), title |-> Str(Stored.jazz_night),
                   content |-> Str(Stored.free_concert), Excerpt |-> Num(1),
                   created_at |-> Num(1)]),
            MkRow([id |-> Str(Stored.n2), title |-> Str(Stored.mozart_week),
                   content |-> Obj, Excerpt |-> Num(2), created_at |-> Num(3)]) >>
    [] t = "audit" -> <<>>
    [] t = "role" ->
         [i \in 1..RoleRows |->
            MkRow([id |-> Num(i), title |-> Str(Stored.mozart), created_at |-> Num(i)])]

RowsIn == [t \in TableNames \cup KeywordTables |-> TableRows(t)]

\* the filter col.eq."value", or-ed over the columns
EqMatch(row, cols, value) ==
  \E i \in 1..Len(cols) : row[cols[i]].t = "string" /\ row[cols[i]].v = value

\* the filter col.ilike."%value%", or-ed over the columns
IlikeMatch(row, cols, value) ==
  \E i \in 1..Len(cols) :
    /\ row[cols[i]].t = "string"
    /\ includes(toLowerCase(row[cols[i]].v), toLowerCase(value))

\* .order('created_at', { ascending: false })
RECURSIVE InsertRecent(_, _)
InsertRecent(sorted, r) ==
  IF sorted = <<>> THEN <<r>>
  ELSE IF r.created_at.v > Head(sorted).created_at.v THEN <<r>> \o sorted
  ELSE <<Head(sorted)>> \o InsertRecent(Tail(sorted), r)

RECURSIVE OrderRecent(_)
OrderRecent(rows) ==
  IF rows = <<>> THEN <<>>
  ELSE InsertRecent(OrderRecent(SubSeq(rows, 1, Len(rows) - 1)), rows[Len(rows)])

\* Math.min
Min(a, b) == IF a < b THEN a ELSE b

\* .limit(n)
Take(rows, n) == SubSeq(rows, 1, IF Len(rows) < n THEN Len(rows) ELSE n)

\* the { data, error } one select resolves to; `fails` is the database
\* answering with an error
Matches(filter, row, cols, value) ==
  CASE filter = "eq" -> EqMatch(row, cols, value)
    [] filter = "ilike" -> IlikeMatch(row, cols, value)
    [] filter = "all" -> TRUE

\* .order(...) when asked for, then .limit(n)
Limited(rows, recent, limit) == Take(IF recent THEN OrderRecent(rows) ELSE rows, limit)

Select(t, filter, cols, value, limit, recent, fails) ==
  IF fails THEN [error |-> TRUE, data |-> <<>>]
  ELSE [error |-> FALSE,
        data |-> Limited(SelectSeq(RowsIn[t], LAMBDA r : Matches(filter, r, cols, value)),
                         recent, limit)]

-----------------------------------------------------------------------------
(* DynamicQueryBuilder.searchTable and its four strategies                 *)

\* DynamicQueryBuilder.sanitizeSearchTerm.  The second pattern it applies,
\* /[;--]/g, is a character class holding the range from ";" (0x3B) to "-"
\* (0x2D).  The range is out of order, which ECMAScript defines as a
\* SyntaxError of the literal.  An engine that reports it when the literal
\* is evaluated throws on every call of the method, whatever the term; an
\* engine that reports it when the module is compiled never loads the class
\* (pc "unloadable" below).  No engine yields a sanitized term.
sanitizeSearchTerm(term) == [thrown |-> TRUE, value |-> <<>>]

\* s.split(/\s+/), without the empty strings (cur is the run being read)
RECURSIVE Runs(_, _)
Runs(s, cur) ==
  IF s = <<>> THEN (IF cur = <<>> THEN <<>> ELSE <<cur>>)
  ELSE IF Head(s) = " "
  THEN (IF cur = <<>> THEN <<>> ELSE <<cur>>) \o Runs(Tail(s), <<>>)
  ELSE Runs(Tail(s), Append(cur, Head(s)))

\* allWords of executePartialSearch
RECURSIVE PartialWords(_)
PartialWords(terms) ==
  IF terms = <<>> THEN <<>>
  ELSE SelectSeq(Runs(toLowerCase(Head(terms)), <<>>), LAMBDA w : Len(w) > 2)
       \o PartialWords(Tail(terms))

\* executeExactSearch, executeFuzzySearch, executePartialSearch: one select
\* per pattern, until one returns rows; an error answer moves on to the next
\* pattern; an exception leaves the method
RECURSIVE TermStage(_, _, _, _, _, _, _, _)

\* the { data, error } of the select for pattern i
TermAnswer(stage, t, cols, patterns, i, strategy, fails, asked, ans) ==
  IF ~ans.error /\ ans.data # <<>>
  THEN [thrown |-> FALSE, data |-> ans.data, log |-> asked]
  ELSE TermStage(stage, t, cols, patterns, i + 1, strategy, fails, asked)

\* the select for pattern i, built from the sanitized pattern
TermQuery(stage, t, cols, patterns, i, strategy, fails, log, clean) ==
  IF clean.thrown THEN [thrown |-> TRUE, data |-> <<>>, log |-> log]
  ELSE TermAnswer(stage, t, cols, patterns, i, strategy, fails,
                  Append(log, [stage |-> stage, table |-> t]),
                  Select(t, IF stage = "exact" THEN "eq" ELSE "ilike", cols,
                         clean.value, strategy.maxResults, strategy.prioritizeRecent,
                         fails))

TermStage(stage, t, cols, patterns, i, strategy, fails, log) ==
  IF i > Len(patterns) THEN [thrown |-> FALSE, data |-> <<>>, log |-> log]
  ELSE TermQuery(stage, t, cols, patterns, i, strategy, fails, log,
                 sanitizeSearchTerm(patterns[i]))

BroadLimit == 10

\* executeBroadSearch with .limit(strategy.maxResults)
executeBroadSearchUpToMax(t, cols, strategy, fails, log) ==
  [thrown |-> FALSE,
   data |-> Select(t, "all", cols, <<>>, strategy.maxResults, TRUE, fails).data,
   log |-> Append(log, [stage |-> "broad", table |-> t])]

\* executeBroadSearch: the most recent rows, whatever the terms
executeBroadSearch(t, cols, strategy, fails, log) ==
  [thrown |-> FALSE,
   data |-> Select(t, "all", cols, <<>>, Min(strategy.maxResults, BroadLimit), TRUE,
                   fails).data,
   log |-> Append(log, [stage |-> "broad", table |-> t])]

StageNames == <<"exact", "fuzzy", "partial", "broad">>

\* strategies[index]()
RunStage(index, t, cols, terms, strategy, failing, log) ==
  IF index = 4
  THEN executeBroadSearch(t, cols, strategy, StageNames[index] \in failing, log)
  ELSE TermStage(StageNames[index], t, cols,
                 IF index = 3 THEN PartialWords(terms) ELSE terms,
                 1, strategy, StageNames[index] \in failing, log)

\* the two `continue`s at the head of the loop body
Skipped(index, strategy) ==
  \/ index = 1 /\ ~strategy.useExactMatch
  \/ index = 2 /\ ~strategy.useFuzzySearch

\* the loop over strategies.entries(): the first strategy that returns rows
\* ends it; a strategy that throws is logged and the next one is tried
RECURSIVE Cascade(_, _, _, _, _, _, _)

\* the body of the try once strategy `index` has returned or thrown `out`
StrategyDone(index, t, cols, terms, strategy, failing, out) ==
  IF ~out.thrown /\ out.data # <<>>
  THEN [data |-> out.data, log |-> out.log]
  ELSE Cascade(index + 1, t, cols, terms, strategy, failing, out.log)

Cascade(index, t, cols, terms, strategy, failing, log) ==
  IF index > Len(StageNames) THEN [data |-> <<>>, log |-> log]
  ELSE IF Skipped(index, strategy)
  THEN Cascade(index + 1, t, cols, terms, strategy, failing, log)
  ELSE StrategyDone(index, t, cols, terms, strategy, failing,
                    RunStage(index, t, cols, terms, strategy, failing, log))

\* searchTable, given the schema its getSearchableColumns call obtained:
\* the QueryResult and the selects issued, in order
\* the QueryResult searchTable returns once the loop has ended with `c`
TableSearched(t, terms, cols, c) ==
  [ result |-> [ data |-> c.data, tableName |-> t, searchTermsUsed |-> terms,
                 columnsSearched |-> cols, executionTimeMs |-> 0, error |-> Null ],
    log |-> c.log ]

\* searchTable entering the loop over the strategies whatever the columns
SearchColumnsAnyway(t, terms, strategy, failing, cols) ==
  TableSearched(t, terms, cols, Cascade(1, t, cols, terms, strategy, failing, <<>>))

\* searchTable from the searchable columns on
SearchColumns(t, terms, strategy, failing, cols) ==
  IF cols = <<>>
  THEN [ result |-> [ data |-> <<>>, tableName |-> t, searchTermsUsed |-> terms,
                      columnsSearched |-> <<>>, executionTimeMs |-> 0,
                      error |-> [message |-> "No searchable columns found in table"] ],
         log |-> <<>> ]
  ELSE TableSearched(t, terms, cols,
                     Cascade(1, t, cols, terms, strategy, failing, <<>>))

searchTable(t, terms, strategy, schema, failing) ==
  SearchColumns(t, terms, strategy, failing, getSearchableColumns(schema, t))

getDefaultStrategy ==
  [ useExactMatch |-> TRUE, useFuzzySearch |-> TRUE, useFullTextSearch |-> FALSE,
    maxResults |-> 20, prioritizeRecent |-> TRUE ]

\* getOptimizedStrategy without its switch
getOptimizedStrategyDefault(queryType) == getDefaultStrategy

getOptimizedStrategy(queryType) ==
  LET base == getDefaultStrategy
      q == toLowerCase(queryType)
  IN  CASE q \in {QueryType.news_search, QueryType.article_search} ->
             [base EXCEPT !.prioritizeRecent = TRUE, !.maxResults = 15]
        [] q \in {QueryType.knowledge_search, QueryType.document_search} ->
             [base EXCEPT !.useFullTextSearch = TRUE, !.maxResults = 10]
        [] q \in {QueryType.user_search, QueryType.profile_search} ->
             [base EXCEPT !.useExactMatch = TRUE, !.useFuzzySearch = FALSE, !.maxResults = 5]
        [] q \in {QueryType.broad_search, QueryType.general_search} ->
             [base EXCEPT !.maxResults = 25, !.prioritizeRecent = FALSE]
        [] OTHER -> base

(* One call of searchTable: a table, terms and a strategy, a database that  *)
(* answers some strategies' selects with an error, and a schema cache that *)
(* is absent, complete, or older than the table.                           *)

TermLists ==
  { <<>>, <<Stored.mozart>>, <<Stored.Mozart>>, <<Stored.jazz, Stored.mozart>>,
    <<Stored.wolfgang_mozart>>, <<Stored.zz>> }

\* the intent types of the calls: one that getOptimizedStrategy does not
\* know, the two user intents, and a broad one
SearchIntents ==
  {QueryType.general, QueryType.user_search, QueryType.profile_search,
   QueryType.broad_search}

UnloadableSearch ==
  [ pc |-> "unloadable", table |-> "audit", terms |-> <<>>, queryType |-> QueryType.general,
    strategy |-> getDefaultStrategy, failing |-> {}, result |-> Null, log |-> <<>> ]

SearchInputs ==
  { [ pc |-> "ready", table |-> t, terms |-> terms, queryType |-> q,
      strategy |-> getOptimizedStrategy(q), failing |-> failing,
      result |-> Null, log |-> <<>> ] :
      t \in TableNames \cup KeywordTables, terms \in TermLists, q \in SearchIntents,
      failing \in SUBSET {StageNames[i] : i \in 1..Len(StageNames)} }

CachedSchemas ==
  { Null,
    NewSchema([i \in 1..Len(TableList(TableNames)) |->
                 SchemaOfLive[TableList(TableNames)[i]]], 0, TRUE),
    NewSchema(<<SchemaOfLive["audit"], SchemaOfLive["news"]>>, 0, TRUE) }

SearchInit ==
  /\ search \in SearchInputs \cup {UnloadableSearch}
  /\ builderCache \in CachedSchemas
  /\ now = 0
  /\ dbTables \in {TableNames, TableNames \cup KeywordTables}
  /\ schemaCache = Null
  /\ caller = [p \in Callers |-> IdleCaller]
  /\ lastEvent = NoEvent
  /\ race = [p \in Callers |-> [raced |-> FALSE, beaten |-> FALSE]]
  /\ lastWrite = Null
  /\ sync = NoSync
  /\ lastServed = Null
  /\ expected = Null
  /\ queryResults = <<>>
  /\ combined = Null
  /\ svc = Null
  /\ req = Null
  /\ call = Null
  /\ returned = Null
  /\ flow = Null
  /\ dss = Null

\* searchTable(tableName, searchTerms, strategy)
\* the search has returned `out`, its schema lookup having left `cache`
SearchReturned(cache, out) ==
  /\ builderCache' = cache
  /\ search' = [search EXCEPT !.pc = "done", !.result = out.result, !.log = out.log]

SearchWithSchema(got) ==
  SearchReturned(got.cache,
                 searchTable(search.table, search.terms, search.strategy, got.schema,
                             search.failing))

SearchTable(catalogOk) ==
  /\ search.pc = "ready"
  /\ SearchWithSchema(GetSchema(builderCache, FALSE, now, dbTables, catalogOk))
  /\ UNCHANGED <<schemaVars, writeHist, readHist, combineVars, utilVars, flowVars, dssVars, pipeVars>>

SearchNext == \E catalogOk \in BOOLEAN : SearchTable(catalogOk)

SpecSearch == SearchInit /\ [][SearchNext]_vars

\* the rows an exact-match select for some term returns, were it issued
ExactHits(t, cols, terms) ==
  { r \in {RowsIn[t][k] : k \in 1..Len(RowsIn[t])} :
      \E i \in 1..Len(terms) : EqMatch(r, cols, terms[i]) }

-----------------------------------------------------------------------------
(* QueryValidationService                                                  *)

\* String.prototype.trim
RECURSIVE TrimLeft(_)
TrimLeft(s) == IF s # <<>> /\ Head(s) = " " THEN TrimLeft(Tail(s)) ELSE s

RECURSIVE TrimRight(_)
TrimRight(s) ==
  IF s # <<>> /\ s[Len(s)] = " " THEN TrimRight(SubSeq(s, 1, Len(s) - 1)) ELSE s

Trim(s) == TrimRight(TrimLeft(s))

\* s.replace(/[...]/g, '') for a class of single characters
RemoveChars(s, class) == SelectSeq(s, LAMBDA c : c \notin class)

\* the index at which the run of equal characters around s[i] begins
RunStart(s, i) ==
  CHOOSE j \in 1..i :
    /\ \A k \in j..i : s[k] = s[i]
    /\ j = 1 \/ s[j - 1] # s[i]

\* a match of the two-character pattern begins at s[i]: the scan goes left
\* to right and resumes behind each match, so within a run of one repeated
\* character (pattern --) the matches begin at every second position
MatchStartsAt(s, pat, i) ==
  /\ i >= 1
  /\ i < Len(s)
  /\ s[i] = pat[1]
  /\ s[i + 1] = pat[2]
  /\ pat[1] = pat[2] => (i - RunStart(s, i)) % 2 = 0

\* s.replace(/pat/g, '') for a literal pattern of two characters
RemoveAll(s, pat) ==
  LET kept == SelectSeq([i \in 1..Len(s) |-> i],
                        LAMBDA i : ~MatchStartsAt(s, pat, i) /\ ~MatchStartsAt(s, pat, i - 1))
  IN  [k \in 1..Len(kept) |-> s[kept[k]]]

MaxTermLength == 100
MaxTerms == 10

\* the character U+0060, which a string of this language cannot hold
Backtick == "U+0060"
\* the null byte
Nul == "U+0000"

\* QueryValidationService.sanitizeSearchTerm (the query builder has a method
\* of the same name, modelled above)
validatorSanitizeSearchTerm(term) ==
  Prefix(RemoveChars(RemoveAll(RemoveAll(RemoveAll(
           RemoveChars(Trim(term), {"'", "\"", "\\", Backtick, ";"}),
           <<"-", "-">>), <<"/", "*">>), <<"*", "/">>), {Nul}),
         MaxTermLength)

\* an argument that may or may not be an array
ArrayOf(items) == [isArray |-> TRUE, items |-> items]
NotAnArray == [isArray |-> FALSE, items |-> <<>>]

validateSearchInputLenient(searchTerms, queryType) ==
  [ isValid |-> TRUE, errors |-> <<>>, warnings |-> <<>>,
    sanitizedInput |-> [searchTerms |-> <<>>, queryType |-> QueryType.general] ]

\* the terms that are non-blank strings, sanitized
SanitizeEach(strs) == [i \in 1..Len(strs) |-> validatorSanitizeSearchTerm(strs[i].v)]

SanitizedTerms(items) ==
  SelectSeq(SanitizeEach(SelectSeq(items, LAMBDA v : v.t = "string" /\ Len(Trim(v.v)) > 0)),
            LAMBDA term : Len(term) > 0)

ValidationWarnings(sanitizedTerms, queryType) ==
  (IF \E i \in 1..Len(sanitizedTerms) : Len(sanitizedTerms[i]) > MaxTermLength
   THEN <<"Some search terms are very long and have been truncated">>
   ELSE <<>>)
  \o (IF Len(sanitizedTerms) > MaxTerms
      THEN <<"Too many search terms provided; using first 10 terms only">>
      ELSE <<>>)
  \o (IF Truthy(queryType) /\ queryType.t # "string"
      THEN <<"Query type should be a string; using default type">>
      ELSE <<>>)

ValidateSanitizedUncut(sanitizedTerms, queryType) ==
  [isValid |-> TRUE, errors |-> <<>>, warnings |-> <<>>,
   sanitizedInput |-> [searchTerms |-> sanitizedTerms,
                       queryType |-> IF queryType.t = "string" THEN queryType.v
                                     ELSE QueryType.general]]

\* validateSearchInput from the check of the sanitized terms on
ValidateSanitized(sanitizedTerms, queryType) ==
  IF Len(sanitizedTerms) = 0
  THEN [isValid |-> FALSE,
        errors |-> <<"No valid search terms found after sanitization">>,
        warnings |-> <<>>, sanitizedInput |-> Null]
  ELSE [isValid |-> TRUE, errors |-> <<>>,
        warnings |-> ValidationWarnings(sanitizedTerms, queryType),
        sanitizedInput |->
          [searchTerms |-> Take(sanitizedTerms, MaxTerms),
           queryType |-> IF queryType.t = "string"
                         THEN Trim(toLowerCase(queryType.v))
                         ELSE QueryType.general]]

validateSearchInput(searchTerms, queryType) ==
  IF ~searchTerms.isArray
  THEN [isValid |-> FALSE, errors |-> <<"Search terms must be provided as an array">>,
        warnings |-> <<>>, sanitizedInput |-> Null]
  ELSE IF Len(searchTerms.items) = 0
  THEN [isValid |-> FALSE, errors |-> <<"At least one search term must be provided">>,
        warnings |-> <<>>, sanitizedInput |-> Null]
  ELSE ValidateSanitized(SanitizedTerms(searchTerms.items), queryType)

\* the values caught as `error`: a database error object or a JavaScript
\* exception (no code)
Err(code, message) == [code |-> code, message |-> message]

\* a caught value without code and message
NoError == Err("", <<>>)

classifyErrorByCode(error) ==
  CASE error.code \in {"42P01", "42703"} -> [type |-> "database", message |-> error.message]
    [] error.code = "42501" -> [type |-> "permission", message |-> error.message]
    [] error.code = "57014" -> [type |-> "timeout", message |-> error.message]
    [] error.code \in {"08000", "08003", "08006"} ->
         [type |-> "network", message |-> error.message]
    [] OTHER -> [type |-> "database", message |-> error.message]

classifyError(error) ==
  IF error.code # ""
  THEN CASE error.code = "42P01" ->
              [type |-> "database", message |-> Message.Table_does_not_exist]
         [] error.code = "42703" ->
              [type |-> "database",
               message |-> Message.Column_does_not_exist]
         [] error.code = "42501" ->
              [type |-> "permission",
               message |-> Message.Insufficient_permissions]
         [] error.code = "57014" ->
              [type |-> "timeout", message |-> Message.Query_was_canceled]
         [] error.code \in {"08000", "08003", "08006"} ->
              [type |-> "network", message |-> Message.Database_connection_failed]
         [] OTHER ->
              [type |-> "database",
               message |-> Message.Database_error
                           \o (IF error.message # <<>> THEN error.message
                               ELSE Message.Unknown_error)]
  ELSE IF error.message # <<>> /\ includes(error.message, Message.permission)
  THEN [type |-> "permission", message |-> Message.Permission_denied \o error.message]
  ELSE IF /\ error.message # <<>>
          /\ \/ includes(error.message, Message.timeout)
             \/ includes(error.message, Message.timed_out)
  THEN [type |-> "timeout", message |-> Message.Request_timed_out \o error.message]
  ELSE IF /\ error.message # <<>>
          /\ \/ includes(error.message, Message.network)
             \/ includes(error.message, Message.connection)
  THEN [type |-> "network", message |-> Message.Network_error \o error.message]
  ELSE [type |-> "database",
        message |-> IF error.message # <<>> THEN error.message
                    ELSE Message.An_unknown_error_occurred]

generateUserFriendlyMessage(queryError) ==
  CASE queryError.type = "database" ->
         IF includes(queryError.message, Message.does_not_exist)
         THEN "The requested information could not be found in our database. Please try a different search term."
         ELSE "We encountered a database issue while searching. Please try again in a moment."
    [] queryError.type = "permission" ->
         "Access to this information is restricted. Please contact support if you believe this is an error."
    [] queryError.type = "timeout" ->
         "Your search is taking longer than expected. Please try with more specific search terms."
    [] queryError.type = "network" ->
         "We're having trouble connecting to our database. Please check your connection and try again."
    [] OTHER ->
         "An unexpected error occurred. Please try again or contact support if the issue persists."

isRecoverableErrorByMessage(queryError) ==
  \/ includes(queryError.message, Message.connection)
  \/ includes(queryError.message, Message.timeout)

isRecoverableError(queryError) ==
  CASE queryError.type \in {"timeout", "network"} -> TRUE
    [] queryError.type = "database" ->
         \/ includes(queryError.message, Message.connection)
         \/ includes(queryError.message, Message.timeout)
    [] OTHER -> FALSE

baseDelay == 1000
maxDelay == 30000

\* Math.pow(2, n).  Powers above 2^20 are held at 2^20: the product with
\* baseDelay then stays within 32-bit integers, and the minimum with
\* maxDelay is the same for every power that large
Pow2(n) == 2^Min(n, 20)

getRetryDelayLinear(queryError, attemptNumber) == baseDelay * attemptNumber

getRetryDelay(queryError, attemptNumber) ==
  IF ~isRecoverableError(queryError) THEN 0
  ELSE CASE queryError.type = "timeout" -> Min(baseDelay * Pow2(attemptNumber), maxDelay)
         [] queryError.type = "network" -> Min(baseDelay * attemptNumber, maxDelay)
         [] OTHER -> baseDelay

-----------------------------------------------------------------------------
(* SchemaIntrospector.findRelevantTables and DynamicQueryBuilder.executeSearch *)

tableKeywords ==
  << [category |-> Word.knowledge, keywords |-> <<Word.knowledge, Word.document, Word.content, Word.article>>],
     [category |-> Word.chat, keywords |-> <<Word.chat, Word.message, Word.conversation, Word.log>>],
     [category |-> Word.user, keywords |-> <<Word.user, Word.session, Word.profile, Word.account>>],
     [category |-> Word.piano, keywords |-> <<Word.piano, Word.instrument, Word.music>>],
     [category |-> Word.news, keywords |-> <<Word.news, Word.article, Word.post, Word.content>>],
     [category |-> Word.event, keywords |-> <<Word.event, Word.activity, Word.activation, Word.schedule>>] >>

\* keywords.some(keyword => tableName.toLowerCase().includes(keyword)), for
\* every table and every entry of tableKeywords
KeywordNamesTable ==
  [t \in TableNames \cup MoreTables |->
     { j \in 1..Len(tableKeywords) :
         \E k \in 1..Len(tableKeywords[j].keywords) :
           includes(toLowerCase(Chars(t)), tableKeywords[j].keywords[k]) }]

ColumnNames ==
  UNION { {ColumnsOf(t)[i].column_name : i \in 1..Len(ColumnsOf(t))} : t \in TableNames }

\* the filter of contentColumns, for every column
IsContentColumn ==
  [col \in ColumnNames |->
     \E w \in {Word.title, Word.content, Word.description, Word.text, Word.body, Word.excerpt} :
       includes(toLowerCase(Chars(col)), w)]

\* term.toLowerCase() of every term
RECURSIVE LowerAll(_)
LowerAll(terms) ==
  IF terms = <<>> THEN <<>> ELSE <<toLowerCase(Head(terms))>> \o LowerAll(Tail(terms))

\* the condition under which an entry of tableKeywords counts: the query
\* type names its category or a term is one of its keywords
Asked(e, type, terms) ==
  \/ includes(type, e.category)
  \/ \E i \in 1..Len(terms), k \in 1..Len(e.keywords) : e.keywords[k] = terms[i]

\* the score findRelevantTables gives one table; `type` and `terms` are the
\* lower-cased query type and search terms
TableScore(tableSchema, type, terms) ==
  10 * Cardinality({ j \in KeywordNamesTable[tableSchema.table_name] :
                       Asked(tableKeywords[j], type, terms) })
  + Len(tableSchema.searchableColumns) * 2
  + (IF tableSchema.hasFullText THEN 5 ELSE 0)
  + Len(SelectSeq(tableSchema.searchableColumns, LAMBDA col : IsContentColumn[col])) * 3

\* .sort(([, a], [, b]) => b - a), stable
RECURSIVE InsertByScore(_, _)
InsertByScore(sorted, e) ==
  IF sorted = <<>> THEN <<e>>
  ELSE IF e.score > Head(sorted).score THEN <<e>> \o sorted
  ELSE <<Head(sorted)>> \o InsertByScore(Tail(sorted), e)

RECURSIVE SortByScore(_)
SortByScore(es) ==
  IF es = <<>> THEN <<>>
  ELSE InsertByScore(SortByScore(SubSeq(es, 1, Len(es) - 1)), es[Len(es)])

MaxRelevantTables == 5

\* findRelevantTables, given the schema its getSchema call returned
ScoredTables(schema, type, terms) ==
  [i \in 1..Len(schema.tables) |->
     [name |-> schema.tables[i].table_name,
      score |-> TableScore(schema.tables[i], type, terms)]]

TableNamesOf(scored) == [i \in 1..Len(scored) |-> scored[i].name]

findRelevantTablesAsListed(schema, queryType, searchTerms) ==
  TableNamesOf(ScoredTables(schema, toLowerCase(queryType), LowerAll(searchTerms)))

findRelevantTables(schema, queryType, searchTerms) ==
  TableNamesOf(
    Take(SortByScore(SelectSeq(ScoredTables(schema, toLowerCase(queryType),
                                            LowerAll(searchTerms)),
                               LAMBDA e : e.score > 0)),
         MaxRelevantTables))

\* how the database answers while one search attempt runs: every query, no
\* query (connection lost, role without privileges), or every query but
\* those on the table news (privilege revoked on that table)
FaultKinds == {"none", "network", "permission", "news_denied"}

\* the error object the database client reports for a fault
ErrorOf(fault) ==
  CASE fault = "network" -> Err("08006", Message.connection_failure)
    [] fault \in {"permission", "news_denied"} ->
         Err("42501", Message.permission_denied_for_table)
    [] OTHER -> NoError

\* the error objects the database client can report for a fault: with the
\* SQLSTATE of the server, or without a code when the request itself fails
RawErrors(fault) ==
  CASE fault = "network" ->
         {Err("08006", Message.connection_failure),
          Err("", Message.connection_refused_by_host)}
    [] fault \in {"permission", "news_denied"} ->
         {Err("42501", Message.permission_denied_for_table),
          Err("", Message.permission_denied_for_role)}
    [] OTHER -> {NoError}

\* the loop of executeSearch over the relevant tables.  Every select
\* resolves to { data, error } and every strategy runs inside the try of
\* searchTable, so no table ends in the catch of the loop body.
RECURSIVE SearchTables(_, _, _, _, _, _, _, _, _, _)

\* the queries that fail during an attempt under `fault`
FailingUnder(fault, tableName) ==
  IF fault = "none" \/ (fault = "news_denied" /\ tableName # "news") THEN {}
  ELSE {StageNames[k] : k \in 1..Len(StageNames)}

\* the catalog queries of getSchema are answered during the attempt
CatalogAnswers(fault) == fault \in {"none", "news_denied"}

\* the loop body once searchTable has returned `out`
TableDone(relevant, i, terms, strategy, cache, t, tables, fault, results, calls, out) ==
  SearchTables(relevant, i + 1, terms, strategy, cache, t, tables, fault,
               IF Len(out.result.data) > 0 THEN Append(results, out.result) ELSE results,
               calls \o [k \in 1..Len(out.log) |-> "data"])

\* the loop body once the getSchema call of searchTable has returned `got`
TableWithSchema(relevant, i, terms, strategy, t, tables, fault, results, calls, got) ==
  TableDone(relevant, i, terms, strategy, got.cache, t, tables, fault, results,
            calls \o got.calls,
            searchTable(relevant[i], terms, strategy, got.schema,
                        FailingUnder(fault, relevant[i])))

SearchTables(relevant, i, terms, strategy, cache, t, tables, fault, results, calls) ==
  IF i > Len(relevant)
  THEN [results |-> results, cache |-> cache, calls |-> calls, attempted |-> relevant]
  ELSE TableWithSchema(relevant, i, terms, strategy, t, tables, fault, results, calls,
                       GetSchema(cache, FALSE, t, tables, CatalogAnswers(fault)))

\* executeSearch: the results, the builder's schema cache afterwards, and
\* the database calls issued
\* executeSearch once the getSchema call of findRelevantTables has returned
SearchRelevant(searchTerms, queryType, strategy, t, tables, fault, first) ==
  SearchTables(findRelevantTables(first.schema, queryType, searchTerms), 1, searchTerms,
               strategy, first.cache, t, tables, fault, <<>>, first.calls)

executeSearch(searchTerms, queryType, strategy, cache, t, tables, fault) ==
  SearchRelevant(searchTerms, queryType, strategy, t, tables, fault,
                 GetSchema(cache, FALSE, t, tables, CatalogAnswers(fault)))

-----------------------------------------------------------------------------
(* ImprovedSmartQueryService                                               *)

retryAttempts == 3
MaxSimpleTerms == 5
SummaryRows == 8

\* the characters /[^a-z0-9\s]/ keeps
Plain == {Lower[i] : i \in 1..Len(Lower)} \cup {Digits[i] : i \in 1..Len(Digits)} \cup {" "}

extractSimpleTerms(query) ==
  Take(SelectSeq(Runs(SelectSeq(toLowerCase(query), LAMBDA c : c \in Plain), <<>>),
                 LAMBDA word : Len(word) > 2),
       MaxSimpleTerms)

Strs(words) == [i \in 1..Len(words) |-> Str(words[i])]

\* the type createFallbackAnalysis picks for the lower-cased query
FallbackType(query) ==
  IF \/ includes(query, Word.chat)
     \/ includes(query, Word.conversation)
     \/ includes(query, Word.message)
  THEN QueryType.chat_search
  ELSE IF \/ includes(query, Word.knowledge)
          \/ includes(query, Word.document)
          \/ includes(query, Word.info)
  THEN QueryType.knowledge_search
  ELSE QueryType.general_search

\* the confidence createFallbackAnalysis attaches, in tenths
FallbackConfidence(type) ==
  IF type = QueryType.chat_search THEN 7
  ELSE IF type = QueryType.knowledge_search THEN 6
  ELSE 4

FallbackWith(type, query) ==
  [type |-> Str(type),
   searchTerms |-> ArrayOf(Strs(extractSimpleTerms(query))),
   confidence |-> FallbackConfidence(type)]

FallbackFor(query) == FallbackWith(FallbackType(query), query)

createFallbackAnalysis(userQuery) == FallbackFor(toLowerCase(userQuery))

\* what the reasoning collaborator does with the analysis prompt: the call
\* fails, the completion has no content, the content is text that is not
\* JSON, or it is a JSON object (its confidence in tenths)
AiReplies ==
  { [kind |-> "throws", type |-> Undefined, searchTerms |-> NotAnArray,
     confidence |-> Undefined],
    [kind |-> "empty", type |-> Undefined, searchTerms |-> NotAnArray,
     confidence |-> Undefined],
    [kind |-> "text", type |-> Undefined, searchTerms |-> NotAnArray,
     confidence |-> Undefined],
    [kind |-> "json", type |-> Str(QueryType.piano_search),
     searchTerms |-> ArrayOf(<<Str(Stored.Mozart)>>), confidence |-> Num(9)],
    [kind |-> "json", type |-> Undefined, searchTerms |-> ArrayOf(<<>>),
     confidence |-> Undefined],
    [kind |-> "json", type |-> Str(QueryType.user_search),
     searchTerms |-> ArrayOf(<<Str(Stored.two_quotes), Num(0)>>),
     confidence |-> Str(<<"h","i","g","h">>)],
    [kind |-> "json", type |-> Num(1), searchTerms |-> NotAnArray,
     confidence |-> Num(8)] }

ReachesFallbackNever(ai) == FALSE

\* analyzeQuery gets to its last statement: create() threw, `response` was
\* falsy, or JSON.parse threw
ReachesFallback(ai) == ai.kind \in {"throws", "empty", "text"}

\* analyzeQuery after its getSchemaSummary call
analyzeQuery(userQuery, ai) ==
  IF ReachesFallback(ai)
  THEN createFallbackAnalysis(userQuery)
  ELSE [type |-> IF Truthy(ai.type) THEN ai.type ELSE Str(QueryType.general_search),
        searchTerms |-> IF ai.searchTerms.isArray THEN ai.searchTerms
                        ELSE ArrayOf(<<Str(userQuery)>>),
        confidence |-> IF ai.confidence.t = "number" THEN ai.confidence.v ELSE 5]

\* a property read on a combined result
Field(result, k) == IF k \in DOMAIN result.item THEN result.item[k] ELSE Undefined

\* the summary mapping of formatResults calls substring on result.content
\* and result.message; it throws TypeError when the value is truthy and
\* not a string
SummaryThrows(result) ==
  IF Truthy(Field(result, "title")) /\ Truthy(Field(result, "content"))
  THEN Field(result, "content").t # "string"
  ELSE IF Truthy(Field(result, "name")) THEN FALSE
  ELSE /\ Truthy(Field(result, "message"))
       /\ Truthy(Field(result, "reply"))
       /\ Field(result, "message").t # "string"

\* formatResults with a completion whose empty content is returned as it is
formatResultsUnguarded(results, fmt) ==
  IF \E i \in 1..Min(Len(results), SummaryRows) : SummaryThrows(results[i])
  THEN [thrown |-> TRUE,
        error |-> Err("", Message.substring_is_not_a_function),
        text |-> "", completion |-> "none"]
  ELSE [thrown |-> FALSE, error |-> NoError,
        text |-> IF fmt = "text" THEN "the collaborator's text"
                 ELSE IF fmt = "empty" THEN ""
                 ELSE "createFallbackResponse",
        completion |-> fmt]

\* generateSearchSuggestions(queryType)
generateSearchSuggestions(queryType) ==
  IF queryType = Str(QueryType.knowledge_search)
  THEN "Try searching for more general topics or check our main categories."
  ELSE IF queryType = Str(QueryType.chat_search)
  THEN "Try looking for specific conversation topics or time periods."
  ELSE "Try using different keywords or being more specific in your search."

\* createNoResultsResponse: the template, the query it quotes and the
\* suggestions that follow
createNoResultsResponse(userQuery, analysisType) ==
  [ template |-> "I searched our database for \"${userQuery}\" but couldn't find any matching records. ${suggestions}",
    userQuery |-> userQuery,
    suggestions |-> generateSearchSuggestions(analysisType) ]

\* no createNoResultsResponse call was made
NoMessage == [template |-> "", userQuery |-> <<>>, suggestions |-> ""]

\* formatResults: the text returned, or the exception it ends with; fmt is
\* what the completion call does (content, empty content, failure)
formatResults(results, fmt) ==
  IF \E i \in 1..Min(Len(results), SummaryRows) : SummaryThrows(results[i])
  THEN [thrown |-> TRUE,
        error |-> Err("", Message.substring_is_not_a_function),
        text |-> "", completion |-> "none"]
  ELSE [thrown |-> FALSE, error |-> NoError,
        text |-> IF fmt = "text" THEN "the collaborator's text"
                 ELSE "createFallbackResponse",
        completion |-> fmt]

\* an outcome built outside the catch block interpolates no error
NoQueryError == [type |-> "", message |-> <<>>]

createUnavailableResponse ==
  [ results |-> <<>>,
    naturalResponse |-> "The database search service is currently unavailable. Please try again later.",
    dataUsed |-> FALSE, queryType |-> Str(QueryType.error), tablesSearched |-> <<>>,
    warnings |-> <<"Database service is not available">>, threw |-> FALSE,
    queryError |-> NoQueryError ]

createValidationErrorResponse(errors) ==
  [ results |-> <<>>,
    naturalResponse |-> "I had trouble understanding your search request. Please try rephrasing your question.",
    dataUsed |-> FALSE, queryType |-> Str(QueryType.validation_error),
    tablesSearched |-> <<>>, warnings |-> errors, threw |-> FALSE,
    queryError |-> NoQueryError ]

CatchAtBoundaryRethrow(error) ==
  [ results |-> <<>>, naturalResponse |-> "", dataUsed |-> FALSE,
    queryType |-> Str(QueryType.error), tablesSearched |-> <<>>, warnings |-> <<>>,
    threw |-> TRUE, queryError |-> NoQueryError ]

\* the catch block of smartSearch.  queryError is the classified error that
\* the block interpolates into the returned texts: its type into reasoning
\* (`Error: ${queryError.type}`) and its message into the one warning
\* (`Error occurred: ${queryError.message}`)
CatchAtBoundary(error) ==
  [ results |-> <<>>,
    naturalResponse |-> generateUserFriendlyMessage(classifyError(error)),
    dataUsed |-> FALSE, queryType |-> Str(QueryType.error), tablesSearched |-> <<>>,
    warnings |-> <<"Error occurred">>, threw |-> FALSE,
    queryError |-> classifyError(error) ]

\* executeSearch letting the error `raised` by the database reach its caller
AttemptOutcomeRaising(exec, raised) ==
  [thrown |-> raised # NoError, error |-> raised, value |-> exec.results]

\* what executeSearchWithRetry sees of one executeSearch call during which
\* the database reported `raised`: executeSearch catches whatever its body
\* raises and returns a list, so nothing is thrown
AttemptOutcome(exec, raised) ==
  [thrown |-> FALSE, error |-> NoError, value |-> exec.results]

AttemptCap == 4

ShouldRetryWhenEmpty(outcome, attemptNumber) ==
  /\ outcome.thrown \/ outcome.value = <<>>
  /\ attemptNumber < retryAttempts

ShouldRetryUnbounded(outcome, attemptNumber) ==
  /\ outcome.thrown \/ outcome.value = <<>>
  /\ attemptNumber < AttemptCap

\* the condition of the catch block of executeSearchWithRetry
ShouldRetry(outcome, attemptNumber) ==
  /\ outcome.thrown
  /\ isRecoverableError(classifyError(outcome.error))
  /\ attemptNumber < retryAttempts

(* One smartSearch request at a time, from the call to the returned result. *)
(* `plan`, fixed when the search begins, is how the database answers        *)
(* during the first, second and third search attempt, were they made.      *)

UserQueries == {Stored.mozart, Stored.hi, Stored.chat_info}
FaultPlans == [1..retryAttempts -> FaultKinds]
FaultAt(plan, n) == plan[Min(n, Len(plan))]

\* the service object once its constructor has returned; refreshed is the
\* schema the latest refreshSchema() wrote, while no request has ended and
\* no time has passed since
Constructed == [pc |-> "constructed", isAvailable |-> FALSE, hasBuilder |-> FALSE,
                refreshed |-> Null]

\* the service module on an engine that rejects the query builder's module
\* when compiling it (see sanitizeSearchTerm)
Unloadable == [pc |-> "unloadable", isAvailable |-> FALSE, hasBuilder |-> FALSE,
               refreshed |-> Null]

\* the ways initializeDatabase can end
Boots == {"no credentials", "schema preloaded", "preload failed",
          "probe succeeded", "probe failed"}

NewRequest(q) ==
  [ pc |-> "analyzing", userQuery |-> q, reply |-> "", plan |-> <<>>, analysis |-> Null,
    terms |-> <<>>, queryType |-> <<>>, warnings |-> <<>>, attempts |-> 0,
    slept |-> <<>>, dbCalls |-> <<>>, backendErrors |-> <<>>, cacheWasFresh |-> FALSE,
    queryResults |-> <<>>, attempted |-> <<>>, completion |-> "none",
    exception |-> [thrown |-> FALSE, error |-> NoError], outcome |-> Null ]

\* the databases the service is deployed against: with and without the
\* table whose content column is jsonb
Databases == {TableNames, TableNames \ {"news"}}

Logged(stage, calls) == [k \in 1..Len(calls) |-> [stage |-> stage, kind |-> calls[k]]]

ServiceInit ==
  /\ svc \in {Constructed, Unloadable}
  /\ req = Null
  /\ call = Null
  /\ returned = Null
  /\ flow = Null
  /\ dss = Null
  /\ now = 0
  /\ dbTables \in Databases
  /\ schemaCache = Null
  /\ builderCache = Null
  /\ caller = [p \in Callers |-> IdleCaller]
  /\ lastEvent = NoEvent
  /\ race = [p \in Callers |-> [raced |-> FALSE, beaten |-> FALSE]]
  /\ lastWrite = Null
  /\ sync = NoSync
  /\ lastServed = Null
  /\ expected = Null
  /\ queryResults = <<>>
  /\ combined = Null
  /\ search = Null

\* initializeDatabase, started by the constructor
initializeDatabase(boot) ==
  /\ svc.pc = "constructed"
  /\ svc' = [ pc |-> "ready",
              isAvailable |-> boot \in {"schema preloaded", "preload failed",
                                        "probe succeeded"},
              hasBuilder |-> boot # "no credentials",
              refreshed |-> Null ]
  /\ schemaCache' =
       IF boot \in {"schema preloaded", "preload failed"}
       THEN GetSchema(schemaCache, FALSE, now, dbTables, boot = "schema preloaded").cache
       ELSE schemaCache
  /\ UNCHANGED <<now, dbTables, caller, lastEvent, writeHist, readHist, combineVars, utilVars, flowVars, dssVars,
                 searchVars, req>>

\* refreshSchema() of the service: getSchema(true) on the introspector the
\* service owns; false when there is none
Refreshing(got) ==
  /\ schemaCache' = IF svc.hasBuilder THEN got.cache ELSE schemaCache
  /\ svc' = [svc EXCEPT !.refreshed = IF svc.hasBuilder THEN got.cache ELSE Null]

refreshSchema(ok) ==
  /\ svc.pc = "ready"
  /\ req = Null
  /\ Refreshing(GetSchema(schemaCache, TRUE, now, dbTables, ok))
  /\ UNCHANGED <<now, dbTables, caller, lastEvent, writeHist, readHist, combineVars, utilVars, flowVars, dssVars,
                 searchVars, req>>

\* smartSearch up to the availability check
smartSearch(q) ==
  /\ svc.pc \in {"constructed", "ready"}
  /\ req = Null
  /\ req' = IF ~svc.isAvailable \/ ~svc.hasBuilder
            THEN [NewRequest(q) EXCEPT !.pc = "done",
                                             !.outcome = createUnavailableResponse]
            ELSE NewRequest(q)
  /\ UNCHANGED <<schemaVars, writeHist, readHist, combineVars, utilVars, flowVars, dssVars, searchVars, svc>>

\* Step 1: analyzeQuery, which reads the schema summary first
AnalyzeWithSchema(ai, got) ==
  /\ schemaCache' = got.cache
  /\ req' = [req EXCEPT !.pc = "validating",
                        !.reply = ai.kind,
                        !.analysis = analyzeQuery(req.userQuery, ai),
                        !.cacheWasFresh = CacheFresh(schemaCache, FALSE, now),
                        !.dbCalls = @ \o Logged("analyzing", got.calls)]

Analyze(ai, ok) ==
  /\ req # Null
  /\ req.pc = "analyzing"
  /\ AnalyzeWithSchema(ai, GetSchema(schemaCache, FALSE, now, dbTables, ok))
  /\ UNCHANGED <<now, dbTables, caller, lastEvent, writeHist, readHist, combineVars, utilVars, flowVars, dssVars,
                 searchVars, svc>>

\* Step 2: validateSearchInput on the analysed terms
\* the request after validateSearchInput has returned `validation`
Validated(r, validation, plan) ==
  IF ~validation.isValid
  THEN [r EXCEPT !.pc = "done",
                 !.outcome = createValidationErrorResponse(validation.errors)]
  ELSE [r EXCEPT !.pc = "searching",
                 !.plan = plan,
                 !.terms = validation.sanitizedInput.searchTerms,
                 !.queryType = validation.sanitizedInput.queryType,
                 !.warnings = validation.warnings]

Validate(plan) ==
  /\ req # Null
  /\ req.pc = "validating"
  /\ req' = Validated(req, validateSearchInput(req.analysis.searchTerms, req.analysis.type),
                      plan)
  /\ UNCHANGED <<schemaVars, writeHist, readHist, combineVars, utilVars, flowVars, dssVars, searchVars, svc>>

\* Step 3: one pass through executeSearchWithRetry, its sleep included
\* the request after attempt `attemptNumber` has ended with `outcome`
Attempted(made, outcome, attemptNumber) ==
  IF ShouldRetry(outcome, attemptNumber)
  THEN [made EXCEPT !.slept =
          Append(@, getRetryDelay(classifyError(outcome.error), attemptNumber))]
  ELSE IF outcome.thrown
  THEN [made EXCEPT !.pc = "done",
                    !.exception = [thrown |-> TRUE, error |-> outcome.error],
                    !.outcome = CatchAtBoundary(outcome.error)]
  ELSE [made EXCEPT !.pc = "responding", !.queryResults = outcome.value]

\* raised: the error object with which the database answers the failing
\* calls of the attempt; the handlers write it to the server console only
AttemptWith(attemptNumber, exec, raised) ==
  /\ builderCache' = exec.cache
  /\ req' = Attempted([req EXCEPT !.attempts = attemptNumber,
                                  !.attempted = exec.attempted,
                                  !.dbCalls = @ \o Logged("searching", exec.calls),
                                  !.backendErrors = IF raised = NoError THEN @
                                                    ELSE Append(@, raised)],
                      AttemptOutcome(exec, raised), attemptNumber)

SearchAttempt ==
  /\ req # Null
  /\ req.pc = "searching"
  /\ \E raised \in RawErrors(FaultAt(req.plan, req.attempts + 1)) :
       AttemptWith(req.attempts + 1,
                   executeSearch(req.terms, req.queryType,
                                 getOptimizedStrategy(req.queryType), builderCache, now,
                                 dbTables, FaultAt(req.plan, req.attempts + 1)),
                   raised)
  /\ UNCHANGED <<schemaVars, writeHist, readHist, combineVars, utilVars, flowVars, dssVars, search, svc>>

\* the object smartSearch returns at the end of its try block, with
\* dataUsed set whatever the combined results are
SearchOutcomeDataUsed(r, combinedResults, formatted) ==
  [ results |-> combinedResults,
    naturalResponse |-> IF Len(combinedResults) > 0 THEN formatted.text
                        ELSE "createNoResultsResponse",
    noResults |-> IF Len(combinedResults) > 0 THEN NoMessage
                  ELSE createNoResultsResponse(r.userQuery, r.analysis.type),
    dataUsed |-> TRUE,
    queryType |-> r.analysis.type,
    tablesSearched |-> [i \in 1..Len(r.queryResults) |-> r.queryResults[i].tableName],
    warnings |-> r.warnings,
    threw |-> FALSE,
    queryError |-> NoQueryError ]

\* the object smartSearch returns at the end of its try block
SearchOutcome(r, combinedResults, formatted) ==
  [ results |-> combinedResults,
    naturalResponse |-> IF Len(combinedResults) > 0 THEN formatted.text
                        ELSE "createNoResultsResponse",
    noResults |-> IF Len(combinedResults) > 0 THEN NoMessage
                  ELSE createNoResultsResponse(r.userQuery, r.analysis.type),
    dataUsed |-> Len(combinedResults) > 0,
    queryType |-> r.analysis.type,
    tablesSearched |-> [i \in 1..Len(r.queryResults) |-> r.queryResults[i].tableName],
    warnings |-> r.warnings,
    threw |-> FALSE,
    queryError |-> NoQueryError ]

\* Step 4: combineQueryResults, formatResults and the returned object
\* the request once formatResults has returned or thrown `formatted`
Responded(r, combinedResults, formatted) ==
  IF Len(combinedResults) > 0 /\ formatted.thrown
  THEN [r EXCEPT !.pc = "done",
                 !.exception = [thrown |-> TRUE, error |-> formatted.error],
                 !.outcome = CatchAtBoundary(formatted.error)]
  ELSE [r EXCEPT !.pc = "done",
                 !.completion = IF Len(combinedResults) > 0 THEN formatted.completion
                                ELSE "none",
                 !.outcome = SearchOutcome(r, combinedResults, formatted)]

RespondWith(r, combinedResults, fmt) ==
  Responded(r, combinedResults, formatResults(combinedResults, fmt))

Respond(fmt) ==
  /\ req # Null
  /\ req.pc = "responding"
  /\ req' = RespondWith(req, combineQueryResults(req.queryResults), fmt)
  /\ UNCHANGED <<schemaVars, writeHist, readHist, combineVars, utilVars, flowVars, dssVars, searchVars, svc>>

\* the caller has taken the result
Return ==
  /\ req # Null
  /\ req.pc = "done"
  /\ req' = Null
  /\ svc' = [svc EXCEPT !.refreshed = Null]
  /\ UNCHANGED <<schemaVars, writeHist, readHist, combineVars, utilVars, flowVars, dssVars, searchVars>>

\* time passes between requests (a request is short against the cache TTL)
Elapse ==
  /\ svc # Null
  /\ svc.pc = "ready"
  /\ req = Null
  /\ Tick
  /\ svc' = [svc EXCEPT !.refreshed = Null]
  /\ UNCHANGED <<writeHist, readHist, combineVars, utilVars, flowVars, dssVars, searchVars, req>>

ServiceNext ==
  \/ \E boot \in Boots : initializeDatabase(boot)
  \/ \E ok \in BOOLEAN : refreshSchema(ok)
  \/ \E q \in UserQueries : smartSearch(q)
  \/ \E ai \in AiReplies, ok \in BOOLEAN : Analyze(ai, ok)
  \/ \E plan \in FaultPlans : Validate(plan)
  \/ SearchAttempt
  \/ \E fmt \in {"text", "empty", "throws"} : Respond(fmt)
  \/ Return
  \/ Elapse

SpecService == ServiceInit /\ [][ServiceNext]_vars

-----------------------------------------------------------------------------
(* The functions of QueryValidationService and SchemaIntrospector called   *)
(* on their own: one call per behaviour, its arguments drawn from the sets *)
(* below                                                                   *)

MaxTermChars == 4

\* the characters the sanitizer treats specially, a letter and a blank
TermAlphabet == {"-", "/", "*", "'", Nul, "a", " "}

StringsUpTo(alphabet, n) == UNION { [1..k -> alphabet] : k \in 0..n }

Repeat(c, n) == [i \in 1..n |-> c]

\* terms longer than the limit of 100 characters
LongTerms ==
  { Repeat("a", MaxTermLength + 1),
    Repeat("a", MaxTermLength - 1) \o <<"-", "a", "-">>,
    <<" ">> \o Repeat("a", MaxTermLength) \o <<"'", "b">> }

SanitizeCalls ==
  { [fn |-> "sanitizeSearchTerm", term |-> t] :
      t \in StringsUpTo(TermAlphabet, MaxTermChars) \cup LongTerms }

\* orders in which the catalog may list the tables (its query has no
\* ORDER BY)
CatalogOrders ==
  { <<"audit", "chat_log", "events", "news", "pianos", "posts", "users">>,
    <<"users", "posts", "pianos", "news", "events", "chat_log", "audit">>,
    <<"posts", "news", "users", "events", "audit", "pianos", "chat_log">> }

\* the schema getSchema returns for the tables of S listed in `order`
SchemaListing(order, S) ==
  LET listed == SelectSeq(order, LAMBDA t : t \in S)
  IN  NewSchema([i \in 1..Len(listed) |-> getTableSchema(listed[i], ColumnsOf(listed[i]))],
                0, TRUE)

IntentTypes == {Word.news, QueryType.general, QueryType.piano_search, <<"C","H","A","T">>}

IntentTerms ==
  { <<>>, << <<"u","p","d","a","t","e">> >>, << <<"M","u","s","i","c">>, Word.account >> }

FindRelevantCalls ==
  { [fn |-> "findRelevantTables", schema |-> SchemaListing(order, S),
     queryType |-> type, searchTerms |-> terms] :
      order \in CatalogOrders, S \in SUBSET (TableNames \cup MoreTables),
      type \in IntentTypes, terms \in IntentTerms }

\* error messages with and without the fragments the validator looks for
ErrorMessages ==
  { <<>>, <<"b","o","o","m">>, <<"C","o","n","n","e","c","t","i","o","n">>,
    Message.connection_failure, Message.permission_denied_for_table,
    Message.timeout, Message.timed_out, Message.network, Message.does_not_exist,
    Message.permission \o <<" ">> \o Message.timeout,
    Message.timeout \o <<" ">> \o Message.connection }

ErrorCodes == {"", "42P01", "42703", "42501", "57014", "08000", "08003", "08006", "23505"}

ErrorTypes == {"database", "validation", "permission", "timeout", "network"}

QueryErrors == { [type |-> ty, message |-> m] : ty \in ErrorTypes, m \in ErrorMessages }

MaxAttemptNumber == 32

ClassifyCalls ==
  { [fn |-> "classifyError", error |-> Err(code, m)] : code \in ErrorCodes, m \in ErrorMessages }

RecoverableCalls == { [fn |-> "isRecoverableError", queryError |-> e] : e \in QueryErrors }

RetryDelayCalls ==
  { [fn |-> "getRetryDelay", queryError |-> e, attemptNumber |-> n] :
      e \in QueryErrors, n \in 1..MaxAttemptNumber }

MaxInputTerms == 2

\* array elements: plain, blank, emptied by the sanitizer, padded, joined
\* by the sanitizer, not a string, longer than the limit
TermPool ==
  { Str(<<"a">>), Str(<<" ">>), Str(<<"'">>), Str(<<" ", "a", "b", " ">>),
    Str(<<"-", "/", "*", "-">>), Num(1), Str(Repeat("a", MaxTermLength + 1)) }

\* n distinct plain terms
PlainTerms(n) == [i \in 1..n |-> Str(Repeat("b", i))]

TermArrays ==
  { ArrayOf(items) : items \in StringsUpTo(TermPool, MaxInputTerms) }
  \cup { ArrayOf(PlainTerms(n)) : n \in {MaxTerms, MaxTerms + 1} }
  \cup { ArrayOf(<<Str(<<" ">>)>> \o PlainTerms(MaxTerms + 1)),
         ArrayOf(<<Num(0), Str(<<"'">>)>> \o PlainTerms(MaxTerms - 1)),
         NotAnArray }

QueryTypeArguments ==
  { Undefined, Num(1), Str(<<>>), Str(<<" ", "N", "e", "w", "s", " ">>),
    Str(QueryType.general_search) }

ValidateCalls ==
  { [fn |-> "validateSearchInput", searchTerms |-> terms, queryType |-> type] :
      terms \in TermArrays, type \in QueryTypeArguments }

UtilInit ==
  /\ \/ call \in SanitizeCalls
     \/ call \in ValidateCalls
     \/ call \in FindRelevantCalls
     \/ call \in ClassifyCalls
     \/ call \in RecoverableCalls
     \/ call \in RetryDelayCalls
  /\ returned = Null
  /\ flow = Null
  /\ dss = Null
  /\ now = 0
  /\ dbTables = {}
  /\ schemaCache = Null
  /\ caller = [p \in Callers |-> IdleCaller]
  /\ lastEvent = NoEvent
  /\ race = [p \in Callers |-> [raced |-> FALSE, beaten |-> FALSE]]
  /\ lastWrite = Null
  /\ sync = NoSync
  /\ lastServed = Null
  /\ expected = Null
  /\ queryResults = <<>>
  /\ combined = Null
  /\ search = Null
  /\ builderCache = Null
  /\ svc = Null
  /\ req = Null

UtilFrame ==
  UNCHANGED <<call, schemaVars, writeHist, readHist, combineVars, searchVars, pipeVars, flowVars, dssVars>>

CallSanitizeSearchTerm ==
  /\ returned = Null
  /\ call.fn = "sanitizeSearchTerm"
  /\ returned' = [value |-> validatorSanitizeSearchTerm(call.term)]
  /\ UtilFrame

CallFindRelevantTables ==
  /\ returned = Null
  /\ call.fn = "findRelevantTables"
  /\ returned' = [value |-> findRelevantTables(call.schema, call.queryType, call.searchTerms)]
  /\ UtilFrame

CallClassifyError ==
  /\ returned = Null
  /\ call.fn = "classifyError"
  /\ returned' = [value |-> classifyError(call.error)]
  /\ UtilFrame

CallIsRecoverableError ==
  /\ returned = Null
  /\ call.fn = "isRecoverableError"
  /\ returned' = [value |-> isRecoverableError(call.queryError)]
  /\ UtilFrame

CallGetRetryDelay ==
  /\ returned = Null
  /\ call.fn = "getRetryDelay"
  /\ returned' = [value |-> getRetryDelay(call.queryError, call.attemptNumber)]
  /\ UtilFrame

CallValidateSearchInput ==
  /\ returned = Null
  /\ call.fn = "validateSearchInput"
  /\ returned' = [value |-> validateSearchInput(call.searchTerms, call.queryType)]
  /\ UtilFrame

UtilNext ==
  \/ CallSanitizeSearchTerm
  \/ CallValidateSearchInput
  \/ CallFindRelevantTables
  \/ CallClassifyError
  \/ CallIsRecoverableError
  \/ CallGetRetryDelay

SpecUtil == UtilInit /\ [][UtilNext]_vars

-----------------------------------------------------------------------------
(* Claims about SchemaIntrospector.getSchema                               *)

\* C1 (as amended): when the catalog table-list query of a re-introspection
\* fails, getSchema does not raise; it returns a fresh EMPTY schema stamped
\* with the current time, whatever is cached, and leaves the cache as it was.
C1_FailedRefreshReturnsEmpty ==
  lastEvent.kind = "failed" =>
    /\ lastEvent.ret.tables = <<>>
    /\ lastEvent.ret.lastUpdated = now
    /\ schemaCache = lastEvent.before

\* C1 as stated: the failed refresh returns the previously cached snapshot
\* (an empty schema only if nothing was cached) and leaves the cache unchanged.
C1_FailedRefreshReturnsCached ==
  lastEvent.kind = "failed" =>
    /\ lastEvent.ret = IF lastEvent.before = Null
                       THEN NewSchema(<<>>, now, TRUE)
                       ELSE lastEvent.before
    /\ schemaCache = lastEvent.before

\* a re-introspection failed while a schema with tables was cached
C1_Witness ==
  /\ lastEvent.kind = "failed"
  /\ lastEvent.before # Null
  /\ lastEvent.before.tables # <<>>
  /\ schemaCache = lastEvent.before

\* C2 (as amended): once getSchema(false) has returned the cached snapshot, a
\* further getSchema(false) within the TTL of that snapshot, with no forced
\* refresh, no clearCache and no cache assignment by any discovery pass in
\* between, returns the identical snapshot and issues no catalog query.
C2_RepeatedReadIdenticalQuiet ==
  (expected # Null /\ expected.quiet) =>
    /\ lastEvent.kind = "hit"
    /\ lastEvent.ret = expected.snap

\* C2 as stated: the same with only forced refreshes and clearCache excluded.
C2_RepeatedReadIdentical ==
  expected # Null =>
    /\ lastEvent.kind = "hit"
    /\ lastEvent.ret = expected.snap

\* a second getSchema(false) within the TTL served the same non-empty
\* snapshot from the cache
C2_Witness ==
  /\ expected # Null
  /\ expected.quiet
  /\ lastEvent.kind = "hit"
  /\ lastEvent.ret = expected.snap
  /\ expected.snap.tables # <<>>

\* C3: under every interleaving of racing getSchema calls the cached schema
\* is absent or an object whose table map was complete when it was assigned,
\* and it is the complete result of the discovery pass that assigned last.
C3_CacheIsOneCompletePass ==
  schemaCache # Null =>
    /\ schemaCache.complete
    /\ lastWrite # Null
    /\ schemaCache.tables = lastWrite.tables
    /\ schemaCache.lastUpdated = lastWrite.at

\* two racing refreshes with different results have both finished, and the
\* cache holds the result of the one that wrote last
C3_Witness ==
  /\ \A p \in Callers : ~InFlight(p)
  /\ lastWrite # Null
  /\ lastWrite.overRival
  /\ schemaCache # Null
  /\ schemaCache.tables = lastWrite.tables

-----------------------------------------------------------------------------
(* Claims about combineQueryResults                                        *)

\* C10: the combined list never holds two entries with the same derived
\* identifier (id, else uuid, else the first 50 characters of the
\* serialization), and when the per-table results hold d <= 25 distinct
\* identifiers the combined list has exactly d entries.
C10_CombinedIdsDistinct ==
  combined # Null =>
    /\ \A i, j \in 1..Len(combined.rows) :
         DerivedId(combined.rows[i].item) = DerivedId(combined.rows[j].item) => i = j
    /\ Cardinality(InputIds(queryResults)) <= MaxCombined =>
         Len(combined.rows) = Cardinality(InputIds(queryResults))

\* two results of 3 rows each that share 2 identifiers were combined into 4
C10_Witness ==
  /\ combined # Null
  /\ Len(queryResults) = 2
  /\ Len(queryResults[1].data) = 3
  /\ Len(queryResults[2].data) = 3
  /\ Cardinality(IdsOf(queryResults[1])) = 3
  /\ Cardinality(IdsOf(queryResults[2])) = 3
  /\ Cardinality(IdsOf(queryResults[1]) \cap IdsOf(queryResults[2])) = 2
  /\ Len(combined.rows) = 4

\* C11: the combined list never has more than 25 entries, and it has
\* exactly 25 whenever the error-free per-table results hold at least 25
\* rows with pairwise distinct derived identifiers.
C11_CombinedCappedAt25 ==
  combined # Null =>
    /\ Len(combined.rows) <= MaxCombined
    /\ Cardinality(InputIds(queryResults)) >= MaxCombined =>
         Len(combined.rows) = MaxCombined

\* 30 rows with 30 distinct ids over three tables were combined into 25
C11_Witness ==
  /\ combined # Null
  /\ Len(queryResults) = 3
  /\ Len(queryResults[1].data) + Len(queryResults[2].data)
       + Len(queryResults[3].data) = 30
  /\ Cardinality(InputIds(queryResults)) = 30
  /\ Len(combined.rows) = 25

-----------------------------------------------------------------------------
(* Claims about DynamicQueryBuilder.searchTable                            *)

\* C4: with exact and fuzzy matching enabled and a database that answers
\* every select, whenever the table holds a row that matches a term exactly,
\* searchTable returns exactly the rows of the exact-match stage and issues
\* no fuzzy, partial-word or broad select for that table.
C4_ExactMatchEndsCascade ==
  ( /\ search # Null
    /\ search.pc = "done"
    /\ search.strategy.useExactMatch
    /\ search.strategy.useFuzzySearch
    /\ search.failing = {}
    /\ search.result.columnsSearched # <<>>
    /\ ExactHits(search.table, search.result.columnsSearched, search.terms) # {} )
  => /\ search.result.data # <<>>
     /\ \A k \in 1..Len(search.result.data) :
          search.result.data[k] \in
            ExactHits(search.table, search.result.columnsSearched, search.terms)
     /\ \A k \in 1..Len(search.log) : search.log[k].stage = "exact"

-----------------------------------------------------------------------------
(* Claims about ImprovedSmartQueryService.smartSearch                      *)

\* smartSearch has produced what it returns
Done == IF req = Null THEN FALSE ELSE req.pc = "done"

\* what the search of the request would combine, with the database answering
WouldFind ==
  combineQueryResults(
    executeSearch(req.terms, req.queryType, getOptimizedStrategy(req.queryType),
                  builderCache, now, dbTables, "none").results)

\* rows were found, and formatResults can summarise them
Formattable(found) ==
  /\ Len(found) > 0
  /\ \A i \in 1..Len(found) : ~SummaryThrows(found[i])

\* C5: when the database fails with a network error during the first search
\* attempt of a request and answers during the second, and the search then
\* finds rows, the request makes a second attempt and returns its non-empty
\* result: the attempt count is exactly 2.
C5_NetworkFailureRetried ==
  ( /\ Done
    /\ req.attempts >= 1
    /\ FaultAt(req.plan, 1) = "network"
    /\ FaultAt(req.plan, 2) = "none"
    /\ Formattable(WouldFind) )
  => /\ req.attempts = 2
     /\ Len(req.outcome.results) > 0

\* C6: no search attempt follows an attempt during which the database
\* failed with a permission error, and no retry delay is slept after it.
C6_PermissionFailureNotRetried ==
  IF req = Null THEN TRUE
  ELSE \A n \in 1..req.attempts :
         FaultAt(req.plan, n) = "permission" =>
           req.attempts = n /\ Len(req.slept) < n

C6_Witness ==
  /\ Done
  /\ req.attempts = 1
  /\ FaultAt(req.plan, 1) = "permission"
  /\ req.slept = <<>>
  /\ req.outcome.results = <<>>

\* attempt n failed with a recoverable error and the delay for it was slept
RetryJustified(failure, n, delay) ==
  /\ isRecoverableError(failure)
  /\ delay = getRetryDelay(failure, n)

\* C7: a request makes at most 3 search attempts; every attempt after the
\* first follows an attempt that failed with a recoverable error, and
\* follows a sleep of getRetryDelay(error, n).
C7_AtMostThreeAttempts ==
  IF req = Null THEN TRUE
  ELSE /\ req.attempts <= retryAttempts
       /\ Len(req.slept) = IF req.pc = "searching" THEN req.attempts
                           ELSE IF req.attempts = 0 THEN 0 ELSE req.attempts - 1
       /\ \A n \in 1..Len(req.slept) :
            RetryJustified(classifyError(ErrorOf(FaultAt(req.plan, n))), n, req.slept[n])

\* the database failed during every attempt the request could make, and the
\* request ended after its attempts with a result
C7_Witness ==
  /\ Done
  /\ req.attempts >= 1
  /\ \A n \in 1..retryAttempts : FaultAt(req.plan, n) = "network"
  /\ req.outcome # Null

\* the analysed terms validateSearchInput rejects: not an array, empty, or
\* no string term that survives sanitization
Rejected(terms) ==
  \/ ~terms.isArray
  \/ Len(terms.items) = 0
  \/ \A i \in 1..Len(terms.items) :
       \/ terms.items[i].t # "string"
       \/ Trim(terms.items[i].v) = <<>>
       \/ validatorSanitizeSearchTerm(terms.items[i].v) = <<>>

IsValidationOutcome(outcome) ==
  /\ outcome.queryType = Str(QueryType.validation_error)
  /\ outcome.results = <<>>
  /\ ~outcome.dataUsed
  /\ Len(outcome.warnings) > 0

\* C8 (as amended): when validateSearchInput rejects the analysed terms,
\* smartSearch ends with the validation outcome and makes no search attempt
\* and no data query; the only database calls of the request are the catalog
\* and column queries of the analysis step, which are issued exactly when
\* the service's schema cache was absent or older than the TTL.
C8_RejectionIssuesOnlyIntrospection ==
  ( /\ Done
    /\ req.analysis # Null
    /\ Rejected(req.analysis.searchTerms) )
  => /\ IsValidationOutcome(req.outcome)
     /\ req.attempts = 0
     /\ \A k \in 1..Len(req.dbCalls) :
          req.dbCalls[k].stage = "analyzing" /\ req.dbCalls[k].kind \in {"catalog", "columns"}
     /\ req.cacheWasFresh <=> req.dbCalls = <<>>

\* C8 (as stated): a rejected request makes no database call at all.
C8_RejectionIssuesNoDatabaseCall ==
  ( /\ Done
    /\ req.analysis # Null
    /\ Rejected(req.analysis.searchTerms) )
  => /\ IsValidationOutcome(req.outcome)
     /\ req.dbCalls = <<>>

C8_Witness ==
  /\ Done
  /\ req.analysis # Null
  /\ Rejected(req.analysis.searchTerms)
  /\ IsValidationOutcome(req.outcome)
  /\ \E k \in 1..Len(req.dbCalls) : req.dbCalls[k].kind = "catalog"

\* C9: smartSearch always returns a result object and never throws; when an
\* exception reaches its catch block the result is the Failed one: no
\* results, dataUsed false, queryType 'error', and the naturalResponse that
\* generateUserFriendlyMessage gives for the classified exception.
C9_NeverThrowsFailedOnException ==
  Done =>
    /\ req.outcome # Null
    /\ ~req.outcome.threw
    /\ req.exception.thrown =>
         /\ req.outcome.results = <<>>
         /\ ~req.outcome.dataUsed
         /\ req.outcome.queryType = Str(QueryType.error)
         /\ req.outcome.naturalResponse =
              generateUserFriendlyMessage(classifyError(req.exception.error))

C9_Witness ==
  /\ Done
  /\ req.exception.thrown
  /\ ~req.outcome.threw
  /\ req.outcome.queryType = Str(QueryType.error)
  /\ req.outcome.naturalResponse =
       "We encountered a database issue while searching. Please try again in a moment."

-----------------------------------------------------------------------------
(* Claims about QueryValidationService                                     *)

ForbiddenChars == {"'", "\"", "\\", ";", Nul}
ForbiddenSequences == {<<"-", "-">>, <<"/", "*">>, <<"*", "/">>}

IsClean(term) ==
  /\ \A i \in 1..Len(term) : term[i] \notin ForbiddenChars
  /\ \A seq \in ForbiddenSequences : ~includes(term, seq)

\* C12: the term sanitizeSearchTerm returns holds none of ' " \ ; and no
\* null byte, and none of the sequences -- /* */, whatever the input,
\* also when a removal joins the characters around it.
C12_SanitizedTermIsClean ==
  (returned # Null /\ call.fn = "sanitizeSearchTerm") => IsClean(returned.value)

-----------------------------------------------------------------------------
(* Claims about SchemaIntrospector.findRelevantTables                      *)

\* the table's name contains a keyword of a category that the intent type
\* names or that one of the terms is a keyword of
NameMatched(tableSchema, queryType, searchTerms) ==
  \E j \in KeywordNamesTable[tableSchema.table_name] :
    Asked(tableKeywords[j], toLowerCase(queryType), LowerAll(searchTerms))

FindRelevantReturned == returned # Null /\ call.fn = "findRelevantTables"

\* C13: findRelevantTables returns the empty list when no table of the
\* schema has a name containing a keyword matched by the intent type or a
\* term (intent news, terms [update], a schema of pianos only: []).
C13_NoNameMatchGivesNoTables ==
  ( /\ FindRelevantReturned
    /\ \A i \in 1..Len(call.schema.tables) :
         ~NameMatched(call.schema.tables[i], call.queryType, call.searchTerms) )
  => returned.value = <<>>

-----------------------------------------------------------------------------
(* Claims about ImprovedSmartQueryService.analyzeQuery                     *)

\* the analysis of the request was made without the collaborator's help
CollaboratorFailed ==
  IF req = Null THEN FALSE
  ELSE req.analysis # Null /\ req.reply \in {"throws", "empty", "text"}

\* C14: when the collaborator's analysis call fails, has no content or has
\* content that is not JSON, the analysis is the one of
\* createFallbackAnalysis (keyword type, simple terms, confidence at most
\* 0.7); the request goes on to validation and, unless validation rejects
\* the terms, to the search, and ends with a returned outcome; the Failed
\* outcome arises only from an exception of a later stage.
C14_CollaboratorFailureFallsBack ==
  CollaboratorFailed =>
    /\ req.analysis.type = Str(FallbackType(toLowerCase(req.userQuery)))
    /\ req.analysis.searchTerms =
         ArrayOf(Strs(extractSimpleTerms(toLowerCase(req.userQuery))))
    /\ req.analysis.confidence \in {4, 6, 7}
    /\ req.pc \in {"validating", "searching", "responding", "done"}
    /\ Done =>
         /\ ~req.outcome.threw
         /\ IF Rejected(req.analysis.searchTerms)
            THEN IsValidationOutcome(req.outcome) /\ req.attempts = 0
            ELSE req.attempts >= 1
         /\ req.exception.thrown =>
              /\ req.attempts >= 1
              /\ ~Formattable(combineQueryResults(req.queryResults))

\* a request whose collaborator call failed has returned rows it found
C14_Witness ==
  /\ Done
  /\ req.reply = "throws"
  /\ req.analysis.confidence = 7
  /\ req.attempts = 1
  /\ req.outcome.dataUsed
  /\ Len(req.outcome.results) > 0

-----------------------------------------------------------------------------
(* Claims about DynamicQueryBuilder.executeSearch within a request         *)

\* the request has returned after a single search attempt during which the
\* queries on news, a relevant table, failed and all others were answered
NewsSearchFailed ==
  /\ Done
  /\ req.attempts = 1
  /\ FaultAt(req.plan, 1) = "news_denied"
  /\ "news" \in dbTables
  /\ "pianos" \in dbTables

PianoRows == { TableRows("pianos")[i] : i \in 1..Len(TableRows("pianos")) }

\* C15: when the search of one relevant table fails, the other relevant
\* tables are still searched, the rows they yield are in the combined
\* result, and the outcome has a warning for the table that was skipped
\* (its warnings list holds more than the warnings of validation).
C15_FailedTableReportedInWarnings ==
  NewsSearchFailed =>
    /\ \E k \in 1..Len(req.queryResults) : req.queryResults[k].tableName = "pianos"
    /\ Len(req.outcome.results) > 0
    /\ \A i \in 1..Len(req.outcome.results) : req.outcome.results[i].item \in PianoRows
    /\ Len(req.outcome.warnings) > Len(req.warnings)

\* where the schema of the call lists the table, and the score the call
\* gives it
ListedAt(name) == CHOOSE i \in 1..Len(call.schema.tables) : call.schema.tables[i].table_name = name

ScoreInCall(name) ==
  TableScore(call.schema.tables[ListedAt(name)], toLowerCase(call.queryType),
             LowerAll(call.searchTerms))

\* the table names of the model in ascending order
NamesAscending == <<"audit", "chat_log", "events", "news", "pianos", "posts", "users">>
NameRank(name) == CHOOSE i \in 1..Len(NamesAscending) : NamesAscending[i] = name

\* at most 5 names, each of a listed table with a positive score, in
\* non-increasing score order
TopScoresDescending(names) ==
  /\ Len(names) <= MaxRelevantTables
  /\ \A i \in 1..Len(names) :
       /\ \E k \in 1..Len(call.schema.tables) : call.schema.tables[k].table_name = names[i]
       /\ ScoreInCall(names[i]) > 0
  /\ \A i, j \in 1..Len(names) : i < j => ScoreInCall(names[i]) >= ScoreInCall(names[j])

\* C16 (as amended): findRelevantTables returns at most 5 table names, none
\* with score 0, in non-increasing score order, and tables of equal score
\* in the order in which the schema lists them.
C16_TopFiveByScoreThenListing ==
  FindRelevantReturned =>
    /\ TopScoresDescending(returned.value)
    /\ \A i, j \in 1..Len(returned.value) :
         (i < j /\ ScoreInCall(returned.value[i]) = ScoreInCall(returned.value[j]))
         => ListedAt(returned.value[i]) < ListedAt(returned.value[j])

\* C16 as stated: tables of equal score are ordered by table name ascending
C16_TopFiveByScoreThenName ==
  FindRelevantReturned =>
    /\ TopScoresDescending(returned.value)
    /\ \A i, j \in 1..Len(returned.value) :
         (i < j /\ ScoreInCall(returned.value[i]) = ScoreInCall(returned.value[j]))
         => NameRank(returned.value[i]) < NameRank(returned.value[j])

\* six tables had a positive score, five were returned, and two of equal
\* score came back in listing order against the order of their names
C16_Witness ==
  /\ FindRelevantReturned
  /\ Cardinality({ k \in 1..Len(call.schema.tables) :
                     ScoreInCall(call.schema.tables[k].table_name) > 0 }) = 6
  /\ Len(returned.value) = 5
  /\ \E i, j \in 1..Len(returned.value) :
       /\ i < j
       /\ ScoreInCall(returned.value[i]) = ScoreInCall(returned.value[j])
       /\ NameRank(returned.value[i]) > NameRank(returned.value[j])

-----------------------------------------------------------------------------
(* Claims about the error handling of QueryValidationService               *)

\* the message of the error speaks of a connection or a timeout
TransientMessage(message) ==
  \/ includes(message, <<"c","o","n","n","e","c","t","i","o","n">>)
  \/ includes(message, <<"t","i","m","e","o","u","t">>)

RetryDelayReturned == returned # Null /\ call.fn = "getRetryDelay"

\* min(1000 * 2^n, 30000) and min(1000 * n, 30000)
ExponentialDelay(n) == IF n >= 5 THEN 30000 ELSE 1000 * 2^n
LinearDelay(n) == IF n >= 30 THEN 30000 ELSE 1000 * n

\* C17 (as amended): for attempt n >= 1 getRetryDelay returns
\* min(1000 * 2^n, 30000) for a timeout error (2 s at the first attempt),
\* min(1000 * n, 30000) for a network error, 1000 for a database error
\* whose message contains 'connection' or 'timeout', and 0 for every other
\* error; it never exceeds 30000.
C17_RetryDelayByKind ==
  RetryDelayReturned =>
    /\ returned.value <= 30000
    /\ returned.value =
         CASE call.queryError.type = "timeout" -> ExponentialDelay(call.attemptNumber)
           [] call.queryError.type = "network" -> LinearDelay(call.attemptNumber)
           [] call.queryError.type = "database"
              /\ TransientMessage(call.queryError.message) -> 1000
           [] OTHER -> 0

\* C17 as stated: 0 for every database, permission and validation error
C17_RetryDelayZeroForOtherKinds ==
  RetryDelayReturned =>
    /\ returned.value <= 30000
    /\ returned.value =
         CASE call.queryError.type = "timeout" -> ExponentialDelay(call.attemptNumber)
           [] call.queryError.type = "network" -> LinearDelay(call.attemptNumber)
           [] OTHER -> 0

\* a database error with a connection message got the base delay, and the
\* cap was reached for a network error
C17_Witness ==
  /\ RetryDelayReturned
  /\ call.queryError.type = "database"
  /\ call.queryError.message = Message.connection_failure
  /\ call.attemptNumber = 3
  /\ returned.value = 1000

RecoverableReturned == returned # Null /\ call.fn = "isRecoverableError"

\* C18: isRecoverableError is true for every timeout and network error,
\* true for a database error exactly when its message contains
\* 'connection' or 'timeout', and false for every permission and
\* validation error, whatever the message.
C18_RecoverableByKind ==
  RecoverableReturned =>
    returned.value =
      CASE call.queryError.type \in {"timeout", "network"} -> TRUE
        [] call.queryError.type = "database" -> TransientMessage(call.queryError.message)
        [] OTHER -> FALSE

\* a permission error whose message speaks of a timeout was not recoverable
C18_Witness ==
  /\ RecoverableReturned
  /\ call.queryError.type = "permission"
  /\ TransientMessage(call.queryError.message)
  /\ returned.value = FALSE

ClassifyReturned == returned # Null /\ call.fn = "classifyError"

ConnectionCodes == {"08000", "08003", "08006"}

SaysTimeout(message) ==
  includes(message, Message.timeout) \/ includes(message, Message.timed_out)

SaysNetwork(message) ==
  includes(message, Message.network) \/ includes(message, Message.connection)

\* the kind the code of an error stands for; any other code is a database
\* error
KindOfCode(code) ==
  CASE code = "42501" -> "permission"
    [] code = "57014" -> "timeout"
    [] code \in ConnectionCodes -> "network"
    [] OTHER -> "database"

\* the kind the message of an error without code stands for: permission
\* before timeout before network
KindOfMessage(message) ==
  IF includes(message, Message.permission) THEN "permission"
  ELSE IF SaysTimeout(message) THEN "timeout"
  ELSE IF SaysNetwork(message) THEN "network"
  ELSE "database"

\* C19 (as amended): classifyError gives every raw error one kind.  An
\* error with a code is classified by the code alone (42P01, 42703 and
\* every unlisted code: database; 42501: permission; 57014: timeout; 08000,
\* 08003, 08006: network).  An error without code is classified by its
\* message: permission if it contains 'permission', else timeout if it
\* contains 'timeout' or 'timed out', else network if it contains 'network'
\* or 'connection', else database with the raw message.
C19_ClassifiedByCodeThenMessage ==
  ClassifyReturned =>
    /\ returned.value.type =
         IF call.error.code # "" THEN KindOfCode(call.error.code)
         ELSE KindOfMessage(call.error.message)
    /\ (call.error.code = "" /\ KindOfMessage(call.error.message) = "database")
         => returned.value.message =
              IF call.error.message = <<>> THEN Message.An_unknown_error_occurred
              ELSE call.error.message
    /\ call.error.code \notin ({""} \cup {"42P01", "42703", "42501", "57014"} \cup ConnectionCodes)
         => includes(returned.value.message, call.error.message)

\* C19 as stated: the listed codes, a timeout message and a connection or
\* network message decide the kind; everything else is a database error
\* carrying the raw message
C19_ClassifiedAsListed ==
  ClassifyReturned =>
    IF call.error.code \in {"42P01", "42703"} THEN returned.value.type = "database"
    ELSE IF call.error.code = "42501" THEN returned.value.type = "permission"
    ELSE IF call.error.code = "57014" \/ SaysTimeout(call.error.message)
    THEN returned.value.type = "timeout"
    ELSE IF call.error.code \in ConnectionCodes \/ SaysNetwork(call.error.message)
    THEN returned.value.type = "network"
    ELSE /\ returned.value.type = "database"
         /\ includes(returned.value.message, call.error.message)

\* an error without code whose message speaks of a permission and of a
\* timeout was classified as a permission error
C19_Witness ==
  /\ ClassifyReturned
  /\ call.error.code = ""
  /\ includes(call.error.message, Message.permission)
  /\ SaysTimeout(call.error.message)
  /\ returned.value.type = "permission"

-----------------------------------------------------------------------------
(* Claims about QueryValidationService.validateSearchInput                 *)

ValidateReturned == returned # Null /\ call.fn = "validateSearchInput"

\* the elements of the array that are left after sanitization: strings that
\* are not blank and that the sanitizer does not empty
Survivors(items) ==
  { i \in 1..Len(items) :
      /\ items[i].t = "string"
      /\ Trim(items[i].v) # <<>>
      /\ validatorSanitizeSearchTerm(items[i].v) # <<>> }

IsLowerTrimmed(text) ==
  /\ \A i \in 1..Len(text) : \A k \in 1..Len(Upper) : text[i] # Upper[k]
  /\ text = <<>> \/ (text[1] # " " /\ text[Len(text)] # " ")

\* what C20 says of an accepted input
AcceptedAsPromised(input, result) ==
  /\ Len(result.sanitizedInput.searchTerms) \in 1..10
  /\ \A i \in 1..Len(result.sanitizedInput.searchTerms) :
       Len(result.sanitizedInput.searchTerms[i]) \in 1..100
  /\ IF input.queryType.t = "string"
     THEN /\ IsLowerTrimmed(result.sanitizedInput.queryType)
          /\ result.sanitizedInput.queryType = Trim(toLowerCase(input.queryType.v))
     ELSE result.sanitizedInput.queryType = <<"g","e","n","e","r","a","l">>
  /\ Cardinality(Survivors(input.searchTerms.items)) > 10 => Len(result.warnings) > 0

\* C20: when validateSearchInput returns isValid = true, the sanitized list
\* has 1 to 10 terms of 1 to 100 characters each, the query type is the
\* lower-cased trimmed string given ('general' when none or not a string),
\* and a warning is present if more than 10 terms survived sanitization;
\* when it returns isValid = false, errors is non-empty and there is no
\* sanitized input.
C20_ValidationResultShape ==
  ValidateReturned =>
    IF returned.value.isValid
    THEN AcceptedAsPromised(call, returned.value)
    ELSE Len(returned.value.errors) > 0 /\ returned.value.sanitizedInput = Null

\* eleven terms survived sanitization: ten were returned, with a warning,
\* and the padded mixed-case query type came back trimmed and lower-cased
C20_Witness ==
  /\ ValidateReturned
  /\ returned.value.isValid
  /\ call.searchTerms.isArray
  /\ Cardinality(Survivors(call.searchTerms.items)) = 11
  /\ Len(returned.value.sanitizedInput.searchTerms) = 10
  /\ Len(returned.value.warnings) = 1
  /\ call.queryType = Str(<<" ", "N", "e", "w", "s", " ">>)
  /\ returned.value.sanitizedInput.queryType = <<"n", "e", "w", "s">>


-----------------------------------------------------------------------------
(* Backend error text and the returned outcome                             *)

\* the raw texts with which the database answered during the request
RawTexts == {req.backendErrors[k].message : k \in 1..Len(req.backendErrors)}

\* the outcome carries the raw text `text` in a field the caller reads: in the
\* message interpolated into its warning
Exposes(outcome, text) == includes(outcome.queryError.message, text)

\* the caller-facing message is one of the fixed texts of
\* generateUserFriendlyMessage or of the response builders
FixedResponses ==
  { generateUserFriendlyMessage([type |-> k, message |-> m]) :
      k \in ErrorTypes, m \in {<<>>, Message.does_not_exist} }
  \cup { createUnavailableResponse.naturalResponse,
         createValidationErrorResponse(<<>>).naturalResponse,
         "the collaborator's text", "createFallbackResponse", "createNoResultsResponse" }

\* C21: whatever raw text the database gave for a failure during a
\* smartSearch request, the returned outcome does not depend on it: no
\* returned field (naturalResponse, reasoning, warnings) contains that text,
\* and the error interpolated into reasoning and warnings, if any, is not
\* one of the backend's
C21_BackendTextNotReturned ==
  (req # Null /\ req.pc = "done") =>
    /\ \A text \in RawTexts : ~Exposes(req.outcome, text)
    /\ req.outcome.naturalResponse \in FixedResponses
    /\ \A k \in 1..Len(req.backendErrors) :
         req.outcome.queryError # classifyError(req.backendErrors[k])

\* a request is answered although the database failed with a raw text that
\* classifyError would have copied into the message
C21_Witness ==
  /\ req # Null /\ req.pc = "done"
  /\ \E k \in 1..Len(req.backendErrors) :
       /\ req.backendErrors[k] = Err("", Message.permission_denied_for_role)
       /\ includes(classifyError(req.backendErrors[k]).message,
                   req.backendErrors[k].message)


-----------------------------------------------------------------------------
(* When getSchema re-discovers, and what the cache holds afterwards        *)

\* the three conditions under which getSchema may not serve the cache
NeedsDiscovery(cache, forceRefresh, t) ==
  \/ forceRefresh
  \/ cache = Null
  \/ (IF cache = Null THEN TRUE ELSE t - cache.lastUpdated >= cacheExpiry)

\* a getSchema call starts a discovery exactly under the three conditions
StartsWhenNeeded ==
  /\ lastEvent'.kind = "start" => NeedsDiscovery(schemaCache, lastEvent'.force, now)
  /\ lastEvent'.kind = "hit" => ~NeedsDiscovery(schemaCache, lastEvent'.force, now)

\* the pass that has just finished listed the catalog as it is now and had
\* every columns query answered
FinishedInSync == lastEvent.kind = "finished" /\ sync.inSync

\* C22 (amended): getSchema starts a discovery exactly when forceRefresh is
\* set, nothing is cached, or the cached snapshot is at least the TTL old;
\* at the moment a discovery finishes the cache is the snapshot it returns,
\* stamped with the current time, and if the catalog has not changed since
\* the pass listed it and all its columns queries answered, that snapshot
\* holds exactly the tables of the database
C22_DiscoveryWhenDueAndCached ==
  /\ [][StartsWhenNeeded]_vars
  /\ [](lastEvent.kind = "finished" =>
          /\ schemaCache = lastEvent.ret
          /\ schemaCache.lastUpdated = now
          /\ FinishedInSync =>
               SchemaNames(schemaCache.tables) = TableList(dbTables))

\* C22 (as stated): once a discovery over the current catalog has succeeded,
\* the cached snapshot, which the next unforced getSchema returns, holds
\* exactly the tables of the database
C22_ChangeReflectedInNextSchema ==
  (sync.settled /\ schemaCache # Null) =>
    SchemaNames(schemaCache.tables) = TableList(dbTables)

\* a discovery started because the snapshot had reached the TTL finishes
\* with a snapshot that holds a table created after the previous snapshot
C22_Witness ==
  /\ FinishedInSync
  /\ now >= cacheExpiry
  /\ ~lastEvent.force
  /\ \E t \in VolatileTables :
       \E i \in 1..Len(schemaCache.tables) : schemaCache.tables[i].table_name = t


-----------------------------------------------------------------------------
(* The stages of one smartSearch call: which stage the call is in and the  *)
(* stages it has entered.  What the collaborator and the database return   *)
(* is reduced to what decides the next stage: whether validation accepts,  *)
(* how many rows the merge keeps, how formatting ends.                     *)

FlowStages == <<"Analyzing", "Validating", "Searching", "Merging", "Formatting">>

\* the most rows the merge keeps in the requests considered
MaxFound == 8

NewFlow(q) ==
  [ pc |-> "Analyzing", query |-> q, stages |-> <<"Analyzing">>, valid |-> "",
    attempts |-> 0, found |-> 0, outcome |-> "" ]

Enter(f, stage) == [f EXCEPT !.pc = stage, !.stages = Append(@, stage)]
Ended(f, outcome) == [f EXCEPT !.pc = "returned", !.outcome = outcome]

\* smartSearch up to the first await: the availability check
FlowStart(q, available) ==
  /\ flow = Null
  /\ dss = Null
  /\ flow' = IF available THEN NewFlow(q)
             ELSE Ended([NewFlow(q) EXCEPT !.stages = <<>>], "unavailable")
  /\ UNCHANGED <<schemaVars, writeHist, readHist, combineVars, searchVars, pipeVars,
                 utilVars, dssVars>>

\* analyzeQuery returns (its own catch turns every failure into the
\* fallback analysis) and validateSearchInput is called
AnalyzeEnds ==
  /\ flow # Null
  /\ flow.pc = "Analyzing"
  /\ flow' = Enter(flow, "Validating")
  /\ UNCHANGED <<schemaVars, writeHist, readHist, combineVars, searchVars, pipeVars,
                 utilVars, dssVars>>

AfterValidationAnyway(f, valid) == Enter(f, "Searching")

\* the early return on a failed validation
AfterValidation(f, valid) ==
  IF ~valid THEN Ended(f, "validation_error") ELSE Enter(f, "Searching")

ValidateEnds(valid) ==
  /\ flow # Null
  /\ flow.pc = "Validating"
  /\ flow' = AfterValidation([flow EXCEPT !.valid = IF valid THEN "yes" ELSE "no"], valid)
  /\ UNCHANGED <<schemaVars, writeHist, readHist, combineVars, searchVars, pipeVars,
                 utilVars, dssVars>>

\* one attempt of executeSearchWithRetry returns a list from which the
\* merge will keep `found` rows: executeSearch raises nothing, so the loop
\* is left on the first attempt
AttemptEnds(found) ==
  /\ flow # Null
  /\ flow.pc = "Searching"
  /\ flow' = IF ShouldRetry([thrown |-> FALSE, error |-> NoError], flow.attempts + 1)
             THEN [flow EXCEPT !.attempts = @ + 1]
             ELSE Enter([flow EXCEPT !.attempts = @ + 1, !.found = found], "Merging")
  /\ UNCHANGED <<schemaVars, writeHist, readHist, combineVars, searchVars, pipeVars,
                 utilVars, dssVars>>

\* combineQueryResults returns; formatResults is called only for rows
MergeEnds ==
  /\ flow # Null
  /\ flow.pc = "Merging"
  /\ flow' = IF flow.found > 0 THEN Enter(flow, "Formatting") ELSE Ended(flow, "done")
  /\ UNCHANGED <<schemaVars, writeHist, readHist, combineVars, searchVars, pipeVars,
                 utilVars, dssVars>>

\* formatResults returns the collaborator's text or the fallback text, or
\* raises while summarising the rows, which ends in the catch block
FormatEnds(end) ==
  /\ flow # Null
  /\ flow.pc = "Formatting"
  /\ flow' = Ended(flow, IF end = "throws" THEN "failed" ELSE "done")
  /\ UNCHANGED <<schemaVars, writeHist, readHist, combineVars, searchVars, pipeVars,
                 utilVars, dssVars>>

\* the caller has taken the result
FlowReturn ==
  /\ flow # Null
  /\ flow.pc = "returned"
  /\ flow' = Null
  /\ UNCHANGED <<schemaVars, writeHist, readHist, combineVars, searchVars, pipeVars,
                 utilVars, dssVars>>

StagesInit ==
  /\ flow = Null
  /\ dss = Null
  /\ svc = Null
  /\ req = Null
  /\ call = Null
  /\ returned = Null
  /\ now = 0
  /\ dbTables = {}
  /\ schemaCache = Null
  /\ caller = [p \in Callers |-> IdleCaller]
  /\ lastEvent = NoEvent
  /\ race = [p \in Callers |-> [raced |-> FALSE, beaten |-> FALSE]]
  /\ lastWrite = Null
  /\ sync = NoSync
  /\ lastServed = Null
  /\ expected = Null
  /\ queryResults = <<>>
  /\ combined = Null
  /\ search = Null
  /\ builderCache = Null

StagesNext ==
  \/ \E q \in UserQueries, available \in BOOLEAN : FlowStart(q, available)
  \/ AnalyzeEnds
  \/ \E valid \in BOOLEAN : ValidateEnds(valid)
  \/ \E found \in 0..MaxFound : AttemptEnds(found)
  \/ MergeEnds
  \/ \E end \in {"text", "fallback", "throws"} : FormatEnds(end)
  \/ FlowReturn

\* every await of a call in progress resumes: the collaborator and the
\* database answer or fail, and the synchronous code in between runs on
StagesFairness ==
  /\ WF_vars(AnalyzeEnds)
  /\ WF_vars(\E valid \in BOOLEAN : ValidateEnds(valid))
  /\ WF_vars(\E found \in 0..MaxFound : AttemptEnds(found))
  /\ WF_vars(MergeEnds)
  /\ WF_vars(\E end \in {"text", "fallback", "throws"} : FormatEnds(end))

\* the stages of smartSearch when every external call returns or fails
SpecStages == StagesInit /\ [][StagesNext]_vars /\ StagesFairness

-----------------------------------------------------------------------------
(* The order of the stages of a request                                    *)

\* the stages entered are the first stages of the order, each once
InStageOrder(f) == f.stages = SubSeq(FlowStages, 1, Len(f.stages))

FlowInProgress == flow # Null
FlowEnded == IF flow = Null THEN FALSE ELSE flow.pc = "returned"

\* C23: a smartSearch request passes through its stages in the order
\* Analyzing, Validating, Searching, Merging, Formatting, no stage is
\* entered after a failed validation, and when every external call
\* eventually returns or fails the request eventually ends (Done or Failed)
C23_StagesInOrderAndEnding ==
  /\ [](flow # Null =>
          /\ InStageOrder(flow)
          /\ flow.valid = "no" =>
               /\ flow.stages = <<"Analyzing", "Validating">>
               /\ flow.pc = "returned"
               /\ flow.outcome = "validation_error")
  /\ FlowInProgress ~> FlowEnded

\* a request has gone through all five stages and ended in the catch block
C23_Witness ==
  /\ FlowEnded
  /\ flow.stages = FlowStages
  /\ flow.outcome = "failed"

-----------------------------------------------------------------------------
(* DatabaseSchemaService: the column mapping                               *)

\* the names of the assumed schemas and of the columns of the databases
\* considered, as sequences of characters
Name ==
  [ piano_title |-> <<"p","i","a","n","o","_","t","i","t","l","e">>,
    title |-> <<"t","i","t","l","e">>,
    name |-> <<"n","a","m","e">>,
    piano_name |-> <<"p","i","a","n","o","_","n","a","m","e">>,
    artist_name |-> <<"a","r","t","i","s","t","_","n","a","m","e">>,
    artist |-> <<"a","r","t","i","s","t">>,
    musician |-> <<"m","u","s","i","c","i","a","n">>,
    composer |-> <<"c","o","m","p","o","s","e","r">>,
    piano_statement |-> <<"p","i","a","n","o","_","s","t","a","t","e","m","e","n","t">>,
    statement |-> <<"s","t","a","t","e","m","e","n","t">>,
    description |-> <<"d","e","s","c","r","i","p","t","i","o","n">>,
    about |-> <<"a","b","o","u","t">>,
    info |-> <<"i","n","f","o">>,
    piano_location |-> <<"p","i","a","n","o","_","l","o","c","a","t","i","o","n">>,
    location |-> <<"l","o","c","a","t","i","o","n">>,
    address |-> <<"a","d","d","r","e","s","s">>,
    venue |-> <<"v","e","n","u","e">>,
    place |-> <<"p","l","a","c","e">>,
    news_title |-> <<"n","e","w","s","_","t","i","t","l","e">>,
    headline |-> <<"h","e","a","d","l","i","n","e">>,
    newscontent |-> <<"n","e","w","s","c","o","n","t","e","n","t">>,
    content |-> <<"c","o","n","t","e","n","t">>,
    body |-> <<"b","o","d","y">>,
    text |-> <<"t","e","x","t">>,
    news_excerpt |-> <<"n","e","w","s","_","e","x","c","e","r","p","t">>,
    excerpt |-> <<"e","x","c","e","r","p","t">>,
    summary |-> <<"s","u","m","m","a","r","y">>,
    brief |-> <<"b","r","i","e","f">>,
    abstract |-> <<"a","b","s","t","r","a","c","t">>,
    news_categories |-> <<"n","e","w","s","_","c","a","t","e","g","o","r","i","e","s">>,
    categories |-> <<"c","a","t","e","g","o","r","i","e","s">>,
    category |-> <<"c","a","t","e","g","o","r","y">>,
    tags |-> <<"t","a","g","s">>,
    type |-> <<"t","y","p","e">>,
    act_title |-> <<"a","c","t","_","t","i","t","l","e">>,
    activation_title |-> <<"a","c","t","i","v","a","t","i","o","n","_","t","i","t","l","e">>,
    act_location |-> <<"a","c","t","_","l","o","c","a","t","i","o","n">>,
    act_content |-> <<"a","c","t","_","c","o","n","t","e","n","t">>,
    details |-> <<"d","e","t","a","i","l","s">>,
    act_artists |-> <<"a","c","t","_","a","r","t","i","s","t","s">>,
    artists |-> <<"a","r","t","i","s","t","s">>,
    performers |-> <<"p","e","r","f","o","r","m","e","r","s">>,
    musicians |-> <<"m","u","s","i","c","i","a","n","s">>,
    id |-> <<"i","d">>,
    underscore_id |-> <<"_","i","d">>,
    varchar |-> <<"v","a","r","c","h","a","r">>,
    char |-> <<"c","h","a","r">>,
    string |-> <<"s","t","r","i","n","g">>,
    integer |-> <<"i","n","t","e","g","e","r">>,
    Piano_Title |-> <<"P","i","a","n","o","_","T","i","t","l","e">>,
    subtitle |-> <<"s","u","b","t","i","t","l","e">>,
    loc |-> <<"l","o","c">>,
    piano_id |-> <<"p","i","a","n","o","_","i","d">> ]

\* the least element of a non-empty set of numbers
Least(S) == CHOOSE x \in S : \A y \in S : x <= y

\* the elements of seq at the positions K, in order
KeepAt(seq, K) ==
  [r \in 1..Cardinality(K) |->
     seq[CHOOSE i \in K : Cardinality({j \in K : j < i}) = r - 1]]

\* [...new Set(seq)]: the first occurrence of every element
Unique(seq) == KeepAt(seq, {i \in 1..Len(seq) : \A j \in 1..(i - 1) : seq[j] # seq[i]})

endsWith(s, suffix) ==
  /\ Len(suffix) <= Len(s)
  /\ SubSeq(s, Len(s) - Len(suffix) + 1, Len(s)) = suffix

\* the tables discoverSchema looks at, in its order
targetTables == <<"pianos", "news", "piano_activations">>

Assumed(field, names) == [field |-> field, names |-> names]

\* assumedSchemas: per table the logical fields, each with its candidate
\* column names, in the order of the object literals
assumedSchemas ==
  [ pianos |->
      << Assumed(Name.title, <<Name.piano_title, Name.title, Name.name, Name.piano_name>>),
         Assumed(Name.artist,
                 <<Name.artist_name, Name.artist, Name.musician, Name.composer>>),
         Assumed(Name.statement,
                 <<Name.piano_statement, Name.statement, Name.description, Name.about,
                   Name.info>>),
         Assumed(Name.location,
                 <<Name.piano_location, Name.location, Name.address, Name.venue,
                   Name.place>>) >>,
    news |->
      << Assumed(Name.title, <<Name.news_title, Name.title, Name.headline, Name.name>>),
         Assumed(Name.content,
                 <<Name.newscontent, Name.content, Name.body, Name.text,
                   Name.description>>),
         Assumed(Name.excerpt,
                 <<Name.news_excerpt, Name.excerpt, Name.summary, Name.brief,
                   Name.abstract>>),
         Assumed(Name.categories,
                 <<Name.news_categories, Name.categories, Name.category, Name.tags,
                   Name.type>>) >>,
    piano_activations |->
      << Assumed(Name.title,
                 <<Name.act_title, Name.title, Name.name, Name.activation_title>>),
         Assumed(Name.location,
                 <<Name.act_location, Name.location, Name.venue, Name.address>>),
         Assumed(Name.content,
                 <<Name.act_content, Name.content, Name.description, Name.details,
                   Name.info>>),
         Assumed(Name.artists,
                 <<Name.act_artists, Name.artists, Name.performers, Name.musicians>>) >> ]

isTextColumn(type) ==
  \E textType \in {Name.text, Name.varchar, Name.char, Name.string} :
    includes(toLowerCase(type), textType)

MatchFound(column) == [found |-> TRUE, column |-> column]
NoMatch == [found |-> FALSE, column |-> <<>>]

\* the candidates that are the name of an actual column
ExactCandidates(possibleColumns, actualColumns) ==
  {i \in 1..Len(possibleColumns) :
     \E j \in 1..Len(actualColumns) : actualColumns[j] = toLowerCase(possibleColumns[i])}

\* the actual columns that contain the candidate or are contained in it
PartialColumns(possible, actualColumns) ==
  {j \in 1..Len(actualColumns) :
     \/ includes(actualColumns[j], toLowerCase(possible))
     \/ includes(toLowerCase(possible), actualColumns[j])}

PartialCandidates(possibleColumns, actualColumns) ==
  {i \in 1..Len(possibleColumns) : PartialColumns(possibleColumns[i], actualColumns) # {}}

\* the partial pass alone
findBestColumnMatchPartialOnly(possibleColumns, actualColumns) ==
  IF PartialCandidates(possibleColumns, actualColumns) # {}
  THEN MatchFound(actualColumns[
         Least(PartialColumns(
                 possibleColumns[Least(PartialCandidates(possibleColumns, actualColumns))],
                 actualColumns))])
  ELSE NoMatch

\* findBestColumnMatch: the first candidate that is an actual column, else
\* the first actual column that partially matches the first candidate with
\* a partial match
findBestColumnMatch(possibleColumns, actualColumns) ==
  IF ExactCandidates(possibleColumns, actualColumns) # {}
  THEN MatchFound(toLowerCase(
         possibleColumns[Least(ExactCandidates(possibleColumns, actualColumns))]))
  ELSE findBestColumnMatchPartialOnly(possibleColumns, actualColumns)

Column(name, type) == [name |-> name, type |-> type]

\* ['title', 'name', 'artist', 'location'].some(key => assumedName.includes(key))
IsDisplayField(assumedName) ==
  \E key \in {Name.title, Name.name, Name.artist, Name.location} :
    includes(assumedName, key)

LowerNames(columns) == [i \in 1..Len(columns) |-> toLowerCase(columns[i].name)]

\* the type of the first column whose lower-cased name is actualColumn
TypeOf(columns, actualColumn) ==
  columns[Least({i \in 1..Len(columns) : toLowerCase(columns[i].name) = actualColumn})].type

\* the loop over the assumed schema: the fields that found a column
MappedFields(assumed, columns) ==
  SelectSeq([k \in 1..Len(assumed) |->
               [field |-> assumed[k].field,
                column |-> findBestColumnMatch(assumed[k].names, LowerNames(columns))]],
            LAMBDA m : m.column.found)

\* the text columns the closing filter adds to the searchable columns
ExtraSearchable(columns, searchableColumns) ==
  SelectSeq(columns,
            LAMBDA col : /\ isTextColumn(col.type)
                         /\ \A i \in 1..Len(searchableColumns) :
                              searchableColumns[i] # col.name
                         /\ ~endsWith(toLowerCase(col.name), Name.underscore_id)
                         /\ toLowerCase(col.name) # Name.id)

ColumnsOfFields(mapped) == [i \in 1..Len(mapped) |-> mapped[i].column.column]

MappedSearchable(mapped, columns) ==
  ColumnsOfFields(SelectSeq(mapped,
                            LAMBDA m : isTextColumn(TypeOf(columns, m.column.column))))

\* createColumnMapping once the loop over the assumed schema has ended
MappingFrom(tableName, columns, mapped, searchableColumns) ==
  [ tableName |-> tableName,
    mappings |-> [i \in 1..Len(mapped) |->
                    [field |-> mapped[i].field, column |-> mapped[i].column.column]],
    searchableColumns |->
      Unique(searchableColumns
             \o [i \in 1..Len(ExtraSearchable(columns, searchableColumns)) |->
                   ExtraSearchable(columns, searchableColumns)[i].name]),
    displayColumns |->
      Unique(ColumnsOfFields(SelectSeq(mapped, LAMBDA m : IsDisplayField(m.field)))) ]

MappingOfFields(tableName, columns, mapped) ==
  MappingFrom(tableName, columns, mapped, MappedSearchable(mapped, columns))

\* createColumnMapping for a table with an assumed schema (the three target
\* tables are the only ones discoverSchema maps)
createColumnMapping(tableName, schema) ==
  MappingOfFields(tableName, schema.columns,
                  MappedFields(assumedSchemas[tableName], schema.columns))

-----------------------------------------------------------------------------
(* DatabaseSchemaService: discovery, refresh and the readers of its caches *)

\* the shapes a target table takes in the databases considered
TableShapes ==
  [ pianos |-> {"v1", "v2"}, news |-> {"v1"}, piano_activations |-> {"v1"} ]

SampleColumns(tableName, shape) ==
  CASE tableName = "pianos" /\ shape = "v1" ->
         << Column(Name.id, Name.integer), Column(Name.piano_title, Name.text),
            Column(Name.artist_name, Name.text) >>
    [] tableName = "pianos" ->
         << Column(Name.id, Name.integer), Column(Name.title, Name.text),
            Column(Name.artist, Name.text) >>
    [] tableName = "news" ->
         << Column(Name.id, Name.integer), Column(Name.news_title, Name.text),
            Column(Name.newscontent, Name.text) >>
    [] OTHER ->
         << Column(Name.id, Name.integer), Column(Name.act_title, Name.text) >>

\* getTableSchema (private): null when the table cannot be accessed or a
\* query fails, else the schema read off a sample row (its lastUpdated,
\* which nothing reads, is left out)
DiscoverTable(tableName, shape, ok) ==
  IF ~ok THEN [found |-> FALSE, shape |-> shape, schema |-> <<>>]
  ELSE [found |-> TRUE, shape |-> shape,
        schema |-> [tableName |-> tableName, columns |-> SampleColumns(tableName, shape)]]

\* createColumnMapping of every table in every shape
MappingOfShape ==
  [ tableName \in DOMAIN TableShapes |->
      [ shape \in TableShapes[tableName] |->
          createColumnMapping(tableName,
                              [tableName |-> tableName,
                               columns |-> SampleColumns(tableName, shape)]) ] ]

CACHE_TTL_MINUTES == 30
\* the clock runs over this many TTLs
MaxCacheAges == 1
MsPerMinute == 1000 * 60

\* a Map with the entry of key k set to v
MapSet(m, k, v) == [x \in DOMAIN m \cup {k} |-> IF x = k THEN v ELSE m[x]]
EmptyMap == << >>

NoDate == -1

isCacheValid(lastCacheUpdate, t) ==
  /\ lastCacheUpdate # NoDate
  /\ t - lastCacheUpdate < CACHE_TTL_MINUTES * MsPerMinute

Procs == {"admin", "reader"}
\* schemas: the tables of result.schemas of the running pass
IdleProc == [pc |-> "idle", op |-> "", table |-> "", force |-> FALSE, todo |-> <<>>,
             schemas |-> {}]

ReaderOps == {"getColumnMapping", "getSearchableColumns", "getTableSchema"}

\* the cache a reader operation looks into
CacheRead(d, op) == IF op = "getTableSchema" THEN d.schemaCache ELSE d.mappingCache

\* history of one forced refresh, kept until the step after its end: the
\* tables that had a mapping when it began, and the tables for which a
\* reader was told, with the caches reported valid, that there is no entry
NoHistory == [pre |-> {}, refreshing |-> FALSE, nullSeen |-> {}]

NewService ==
  [ db |-> [t \in DOMAIN TableShapes |-> "v1"],
    schemaCache |-> EmptyMap, mappingCache |-> EmptyMap,
    isAvailable |-> FALSE, lastCacheUpdate |-> NoDate, clock |-> 0,
    proc |-> [p \in Procs |-> IdleProc],
    event |-> [kind |-> "none"],
    hist |-> NoHistory ]

DssFrame ==
  UNCHANGED <<schemaVars, writeHist, readHist, combineVars, searchVars, pipeVars,
              utilVars, flowVars>>

\* the caches are served as they are: discoverSchema's validity check
ServesCache(d, force) == ~force /\ isCacheValid(d.lastCacheUpdate, d.clock)

\* a reader's call returns what the cache holds for its table now
ReaderReturns(d, op, table) ==
  [d EXCEPT
     !.proc["reader"] = IdleProc,
     !.event = [kind |-> "returned",
                null |-> table \notin DOMAIN CacheRead(d, op),
                refreshing |-> d.proc["admin"].pc # "idle",
                valid |-> isCacheValid(d.lastCacheUpdate, d.clock)],
     !.hist =
        IF d.proc["admin"].pc = "idle" THEN NoHistory
        ELSE IF /\ table \notin DOMAIN CacheRead(d, op)
                /\ d.proc["admin"].force
                /\ isCacheValid(d.lastCacheUpdate, d.clock)
        THEN [@ EXCEPT !.nullSeen = @ \cup {table}] ELSE @]

\* discoverSchema past its validity check: the loop over targetTables begins
BeginPass(d, p, op, table, force) ==
  [d EXCEPT !.proc[p] = [pc |-> "discovering", op |-> op, table |-> table,
                         force |-> force, todo |-> targetTables, schemas |-> {}],
            !.event = [kind |-> "none"],
            !.hist = IF d.proc["admin"].pc = "idle" THEN NoHistory ELSE @]

\* discoverSchema(forceRefresh) called directly
DiscoverSchema(force) ==
  /\ dss # Null
  /\ dss.proc["admin"].pc = "idle"
  /\ dss' = IF ServesCache(dss, force)
            THEN [dss EXCEPT !.event = [kind |-> "cached"]]
            ELSE [BeginPass(dss, "admin", "discoverSchema", "", force) EXCEPT
                    !.hist = [pre |-> IF force THEN DOMAIN dss.mappingCache ELSE {},
                              refreshing |-> force, nullSeen |-> {}]]
  /\ DssFrame

\* refreshSchema: both caches are cleared, then discoverSchema(true) runs
RefreshSchema ==
  /\ dss # Null
  /\ dss.proc["admin"].pc = "idle"
  /\ dss' = [BeginPass([dss EXCEPT !.schemaCache = EmptyMap, !.mappingCache = EmptyMap],
                       "admin", "refreshSchema", "", TRUE) EXCEPT
               !.hist = [pre |-> DOMAIN dss.mappingCache, refreshing |-> TRUE,
                         nullSeen |-> {}]]
  /\ DssFrame

\* the pass of p once the schema of its next table has been looked up
PassStep(d, p, tableName, got) ==
  [d EXCEPT
     !.schemaCache = IF got.found THEN MapSet(@, tableName, got.schema) ELSE @,
     !.mappingCache = IF got.found
                      THEN MapSet(@, tableName, MappingOfShape[tableName][got.shape])
                      ELSE @,
     !.proc[p].todo = Tail(@),
     !.proc[p].schemas = IF got.found THEN @ \cup {tableName} ELSE @,
     !.event = [kind |-> "none"]]

\* the end of discoverSchema, and what its caller does with the result
PassEnd(d, p) ==
  IF d.proc[p].todo # <<>> THEN d
  ELSE IF p = "reader"
  THEN ReaderReturns([d EXCEPT !.isAvailable = d.proc[p].schemas # {},
                               !.lastCacheUpdate = d.clock],
                     d.proc[p].op, d.proc[p].table)
  ELSE [d EXCEPT !.isAvailable = d.proc[p].schemas # {},
                 !.lastCacheUpdate = d.clock,
                 !.proc[p] = IdleProc,
                 !.event = [kind |-> "discovered", forced |-> d.proc[p].force,
                            op |-> d.proc[p].op, schemas |-> d.proc[p].schemas],
                 !.hist.refreshing = FALSE]

\* the schema queries of the next table of a pass return
TableDiscovered(p, ok) ==
  /\ dss # Null
  /\ dss.proc[p].pc = "discovering"
  /\ dss' = PassEnd(PassStep(dss, p, Head(dss.proc[p].todo),
                             DiscoverTable(Head(dss.proc[p].todo),
                                           dss.db[Head(dss.proc[p].todo)], ok)),
                    p)
  /\ DssFrame

\* getColumnMapping, getSearchableColumns and getTableSchema (public): the
\* cached entry when present and valid, else discoverSchema() and then
\* whatever the cache holds
ReaderCall(op, table) ==
  /\ dss # Null
  /\ dss.proc["reader"].pc = "idle"
  /\ dss' = IF \/ /\ table \in DOMAIN CacheRead(dss, op)
                  /\ isCacheValid(dss.lastCacheUpdate, dss.clock)
               \/ ServesCache(dss, FALSE)
            THEN ReaderReturns(dss, op, table)
            ELSE BeginPass(dss, "reader", op, table, FALSE)
  /\ DssFrame

\* the environment alters or removes a table, or brings it back
AlterTable(tableName) ==
  /\ dss # Null
  /\ \E shape \in TableShapes[tableName] \ {dss.db[tableName]} :
       dss' = [dss EXCEPT !.db[tableName] = shape, !.event = [kind |-> "none"],
                          !.hist = IF dss.proc["admin"].pc = "idle" THEN NoHistory ELSE @]
  /\ DssFrame

\* time passes between the calls, one TTL at a time (a pass is short
\* against the TTL)
DssTick ==
  /\ dss # Null
  /\ \A p \in Procs : dss.proc[p].pc = "idle"
  /\ dss.clock < MaxCacheAges * CACHE_TTL_MINUTES * MsPerMinute
  /\ dss' = [dss EXCEPT !.clock = @ + CACHE_TTL_MINUTES * MsPerMinute,
                        !.event = [kind |-> "none"],
                        !.hist = NoHistory]
  /\ DssFrame

DssInit ==
  /\ dss = NewService
  /\ flow = Null
  /\ svc = Null
  /\ req = Null
  /\ call = Null
  /\ returned = Null
  /\ now = 0
  /\ dbTables = {}
  /\ schemaCache = Null
  /\ caller = [p \in Callers |-> IdleCaller]
  /\ lastEvent = NoEvent
  /\ race = [p \in Callers |-> [raced |-> FALSE, beaten |-> FALSE]]
  /\ lastWrite = Null
  /\ sync = NoSync
  /\ lastServed = Null
  /\ expected = Null
  /\ queryResults = <<>>
  /\ combined = Null
  /\ search = Null
  /\ builderCache = Null

DssNext ==
  \/ \E force \in BOOLEAN : DiscoverSchema(force)
  \/ RefreshSchema
  \/ \E p \in Procs, ok \in BOOLEAN : TableDiscovered(p, ok)
  \/ \E op \in ReaderOps, t \in DOMAIN TableShapes : ReaderCall(op, t)
  \/ \E t \in DOMAIN TableShapes : AlterTable(t)
  \/ DssTick

\* one DatabaseSchemaService with a refreshing caller and a reading caller
SpecMappings == DssInit /\ [][DssNext]_vars

PassesNext ==
  \/ \E force \in BOOLEAN : DiscoverSchema(force)
  \/ RefreshSchema
  \/ \E ok \in BOOLEAN : TableDiscovered("admin", ok)
  \/ \E t \in DOMAIN TableShapes : AlterTable(t)
  \/ DssTick

\* one DatabaseSchemaService whose passes run one after the other
SpecPasses == DssInit /\ [][PassesNext]_vars

-----------------------------------------------------------------------------
(* What a reader sees while the caches are refreshed                       *)

-----------------------------------------------------------------------------
(* QueryValidationService: identifiers                                     *)

MaxIdentifierLength == 63

\* the array reservedKeywords of validateTableName
reservedKeywords ==
  { <<"s","e","l","e","c","t">>,
    <<"i","n","s","e","r","t">>,
    <<"u","p","d","a","t","e">>,
    <<"d","e","l","e","t","e">>,
    <<"d","r","o","p">>,
    <<"c","r","e","a","t","e">>,
    <<"a","l","t","e","r">>,
    <<"t","a","b","l","e">>,
    <<"i","n","d","e","x">>,
    <<"v","i","e","w">>,
    <<"f","u","n","c","t","i","o","n">>,
    <<"p","r","o","c","e","d","u","r","e">>,
    <<"t","r","i","g","g","e","r">>,
    <<"u","s","e","r">>,
    <<"r","o","l","e">>,
    <<"g","r","a","n","t">>,
    <<"r","e","v","o","k","e">>,
    <<"c","o","m","m","i","t">>,
    <<"r","o","l","l","b","a","c","k">> }

\* /^[a-z][a-z0-9_]*$/.test(sanitized)
IsIdentifierFormat(sanitized) ==
  /\ sanitized # <<>>
  /\ \E k \in 1..Len(Lower) : Lower[k] = Head(sanitized)
  /\ \A i \in 2..Len(sanitized) :
       \/ \E k \in 1..Len(Lower) : Lower[k] = sanitized[i]
       \/ \E k \in 1..Len(Digits) : Digits[k] = sanitized[i]
       \/ sanitized[i] = "_"

\* QueryValidationService.validateTableName(tableName).isValid
validateTableName(tableName) ==
  LET sanitized == toLowerCase(Trim(tableName))
  IN  /\ tableName # <<>>
      /\ IsIdentifierFormat(sanitized)
      /\ Len(sanitized) <= MaxIdentifierLength
      /\ sanitized \notin reservedKeywords

\* QueryValidationService.validateColumnNames: the columns it keeps
validateColumnNames(columnNames) ==
  LET kept == SelectSeq(columnNames,
                        LAMBDA col : col # <<>> /\ IsIdentifierFormat(toLowerCase(Trim(col))))
  IN  [i \in 1..Len(kept) |->
         Take(toLowerCase(Trim(kept[i])), MaxIdentifierLength)]

\* the column passes validateColumnNames: it is among the columns kept
IsValidColumnName(name) == validateColumnNames(<<Chars(name)>>) # <<>>

\* the tables and the columns the data queries of one searchTable call name
QueriedTables == {search.log[i].table : i \in 1..Len(search.log)}
QueriedColumns ==
  IF search.log = <<>> THEN {}
  ELSE {search.result.columnsSearched[i] : i \in 1..Len(search.result.columnsSearched)}

\* C25: the query builder issues no data query against a table name or a
\* column name that fails identifier validation (after lower-casing, the
\* name matches ^[a-z][a-z0-9_]{0,62}$ and is no reserved keyword)
C25_OnlyValidatedIdentifiersQueried ==
  /\ \A t \in QueriedTables : validateTableName(Chars(t))
  /\ \A c \in QueriedColumns : IsValidColumnName(c)

-----------------------------------------------------------------------------
(* dataUsed and the results of the returned outcome                        *)

\* the outcome is one of the failure outcomes: the unavailable response, the
\* validation-error response, or the one built in the catch block
IsFailureOutcome(outcome) ==
  \/ outcome.queryType \in {Str(QueryType.error), Str(QueryType.validation_error)}
  \/ outcome.queryError # NoQueryError

\* C26: dataUsed of a returned outcome is true exactly when its results are
\* not empty, and the unavailable, validation-error and caught-error
\* outcomes carry no results and dataUsed false
C26_DataUsedIffResults ==
  (req # Null /\ req.pc = "done") =>
    /\ req.outcome.dataUsed <=> (Len(req.outcome.results) > 0)
    /\ IsFailureOutcome(req.outcome) =>
         (req.outcome.results = <<>> /\ ~req.outcome.dataUsed)

\* a request was answered with rows, its dataUsed being true
C26_Witness ==
  /\ req # Null /\ req.pc = "done"
  /\ ~IsFailureOutcome(req.outcome)
  /\ req.outcome.dataUsed
  /\ Len(req.outcome.results) > 0

-----------------------------------------------------------------------------
(* searchTable when a strategy meets a backend error                       *)

\* the strategies whose select the database answered with an error
ErroredStages ==
  {search.log[i].stage : i \in 1..Len(search.log)} \cap search.failing

\* position of a strategy in the array `strategies`
StageIndex(stage) == CHOOSE k \in 1..Len(StageNames) : StageNames[k] = stage

\* some select of a strategy after `stage` was issued
LaterStageAttempted(stage) ==
  \E i \in 1..Len(search.log) : StageIndex(search.log[i].stage) > StageIndex(stage)

\* the select of the strategy, answered without error, had no row to return
\* (the broad select has no filter; the others filter by a term)
ReturnedNoRows(stage) == stage = "broad" => RowsIn[search.table] = <<>>

\* the claim without its clause on the error field
CascadeGoesOnAfterError ==
  (search # Null /\ search.pc = "done" /\ ErroredStages # {}) =>
    /\ \A stage \in ErroredStages :
         stage # StageNames[Len(StageNames)] => LaterStageAttempted(stage)
    /\ search.result.data = <<>> =>
         \A i \in 1..Len(search.log) :
           \/ search.log[i].stage \in search.failing
           \/ ReturnedNoRows(search.log[i].stage)

\* C27: a backend error in one strategy of searchTable does not end the
\* cascade (the next strategy is attempted), the error is recorded in the
\* error field of the QueryResult, and the result has zero rows only if
\* every attempted strategy failed or returned no rows
C27_StrategyErrorRecordedAndCascadeGoesOn ==
  (search # Null /\ search.pc = "done" /\ ErroredStages # {}) =>
    /\ \A stage \in ErroredStages :
         stage # StageNames[Len(StageNames)] => LaterStageAttempted(stage)
    /\ search.result.error # Null
    /\ search.result.data = <<>> =>
         \A i \in 1..Len(search.log) :
           \/ search.log[i].stage \in search.failing
           \/ ReturnedNoRows(search.log[i].stage)

-----------------------------------------------------------------------------
(* searchTable on a table without searchable columns                       *)

\* the schema the getSchema call of the finished search returned: the cache
\* it left, or the empty schema of a failed introspection
TableUnknown == builderCache = Null \/ ~HasTable(builderCache, search.table)

\* the schema knows the table, and neither the introspection nor the common
\* patterns found a searchable column in it
NothingSearchable ==
  /\ builderCache # Null
  /\ HasTable(builderCache, search.table)
  /\ TableOf(builderCache, search.table).searchableColumns = <<>>
  /\ CommonPatternColumns(TableOf(builderCache, search.table).columns) = <<>>

\* C28: for a table the schema does not know, or one without a searchable
\* column, getSearchableColumns returns [] and searchTable returns zero rows
\* with the explanatory error, having issued no data query
C28_NoColumnsNoQuery ==
  (search # Null /\ search.pc = "done" /\ (TableUnknown \/ NothingSearchable)) =>
    /\ search.result.columnsSearched = <<>>
    /\ search.result.data = <<>>
    /\ search.result.error = [message |-> "No searchable columns found in table"]
    /\ search.log = <<>>

\* a search of a table that the schema in use does not list has returned
C28_Witness ==
  /\ search # Null /\ search.pc = "done"
  /\ builderCache # Null
  /\ ~HasTable(builderCache, search.table)
  /\ search.table \in dbTables

-----------------------------------------------------------------------------
(* createColumnMapping as a function of the table and its columns          *)

\* the columns a target table may have: exact candidates in either case,
\* names that only partially match a candidate, and a key column
ColumnPool ==
  << Column(Name.title, Name.text), Column(Name.Piano_Title, Name.varchar),
     Column(Name.subtitle, Name.text), Column(Name.loc, Name.text),
     Column(Name.artists, Name.text), Column(Name.piano_id, Name.integer) >>

ColumnLists == { KeepAt(ColumnPool, K) : K \in SUBSET (1..Len(ColumnPool)) }

MappingCalls ==
  { [fn |-> "createColumnMapping", tableName |-> t, columns |-> c] :
      t \in {targetTables[i] : i \in 1..Len(targetTables)}, c \in ColumnLists }

ColumnMatchInit ==
  /\ call \in MappingCalls
  /\ returned = Null
  /\ flow = Null
  /\ dss = Null
  /\ now = 0
  /\ dbTables = {}
  /\ schemaCache = Null
  /\ caller = [p \in Callers |-> IdleCaller]
  /\ lastEvent = NoEvent
  /\ race = [p \in Callers |-> [raced |-> FALSE, beaten |-> FALSE]]
  /\ lastWrite = Null
  /\ sync = NoSync
  /\ lastServed = Null
  /\ expected = Null
  /\ queryResults = <<>>
  /\ combined = Null
  /\ search = Null
  /\ builderCache = Null
  /\ svc = Null
  /\ req = Null

CallCreateColumnMapping ==
  /\ returned = Null
  /\ call.fn = "createColumnMapping"
  /\ returned' = [value |-> createColumnMapping(call.tableName,
                                                [tableName |-> call.tableName,
                                                 columns |-> call.columns])]
  /\ UtilFrame

ColumnMatchNext == CallCreateColumnMapping

SpecColumnMatch == ColumnMatchInit /\ [][ColumnMatchNext]_vars

\* the lower-cased names of the columns passed
ActualNames == {toLowerCase(call.columns[i].name) : i \in 1..Len(call.columns)}

\* the columns the returned mapping gives to a logical field
MappedTo(field) ==
  {returned.value.mappings[i].column :
     i \in {j \in 1..Len(returned.value.mappings) :
              returned.value.mappings[j].field = field}}

\* the candidates of `names` that are, lower-cased, the name of a column
ExactlyMatching(names) == {i \in 1..Len(names) : toLowerCase(names[i]) \in ActualNames}

\* one contains the other
MatchesPartially(candidate, actual) ==
  \/ includes(actual, toLowerCase(candidate))
  \/ includes(toLowerCase(candidate), actual)

\* the field is mapped to the first candidate that is a column; if none is,
\* to a column that partially matches a candidate; if none does, to nothing
MappedByRule(field, names) ==
  IF ExactlyMatching(names) # {}
  THEN MappedTo(field) = {toLowerCase(names[Least(ExactlyMatching(names))])}
  ELSE IF \E i \in 1..Len(names) : \E a \in ActualNames : MatchesPartially(names[i], a)
  THEN \E a \in ActualNames :
         /\ MappedTo(field) = {a}
         /\ \E i \in 1..Len(names) : MatchesPartially(names[i], a)
  ELSE MappedTo(field) = {}

AllMappedByRule ==
  \A k \in 1..Len(assumedSchemas[call.tableName]) :
    MappedByRule(assumedSchemas[call.tableName][k].field,
                 assumedSchemas[call.tableName][k].names)

PrimaryFields == {Name.title, Name.name, Name.artist, Name.location}

DisplayColumns ==
  {returned.value.displayColumns[i] : i \in 1..Len(returned.value.displayColumns)}

\* the logical fields mapped to the column
FieldsOf(column) ==
  {returned.value.mappings[i].field :
     i \in {j \in 1..Len(returned.value.mappings) :
              returned.value.mappings[j].column = column}}

\* C29 (as amended): findBestColumnMatch maps a field to the first candidate
\* that equals a column name case-insensitively, to a partially matching
\* column (substring in either direction) only when no candidate matches
\* exactly, and leaves it unmapped otherwise; every display column is the
\* mapped column of a logical field whose name CONTAINS one of title, name,
\* artist, location
C29_MatchRuleAndDisplayOfFieldsContainingKey ==
  (returned # Null /\ call.fn = "createColumnMapping") =>
    /\ AllMappedByRule
    /\ \A d \in DisplayColumns :
         \E f \in FieldsOf(d) : \E key \in PrimaryFields : includes(f, key)

\* C29 as stated: every display column is the mapped column of a logical
\* field that is one of title, name, artist, location
C29_DisplayOfPrimaryFieldsOnly ==
  (returned # Null /\ call.fn = "createColumnMapping") =>
    /\ AllMappedByRule
    /\ \A d \in DisplayColumns : FieldsOf(d) \cap PrimaryFields # {}

\* a mapping was made in which one field took a partially matching column,
\* another the exact one although a partial match precedes it, and a column
\* is displayed
C29_Witness ==
  /\ returned # Null /\ call.fn = "createColumnMapping"
  /\ call.tableName = "pianos"
  /\ MappedTo(Name.title) = {Name.piano_title}
  /\ Name.title \in ActualNames
  /\ MappedTo(Name.location) = {Name.loc}
  /\ Name.piano_title \in DisplayColumns

-----------------------------------------------------------------------------
(* The order and the provenance of the combined rows                       *)

\* the per-table results that take part: with rows and without error
Eligible ==
  {k \in 1..Len(queryResults) :
     queryResults[k].data # <<>> /\ queryResults[k].error = Null}

\* the per-table result a combined row names as its source
SourceOf(row) ==
  CHOOSE k \in 1..Len(queryResults) :
    queryResults[k].tableName = row._metadata.source_table

\* result a is ordered before result b: more rows, or as many rows and a
\* shorter execution time, or as many rows, the same time and handed over
\* earlier (the sort is stable)
OrderedBefore(a, b) ==
  \/ Len(queryResults[a].data) > Len(queryResults[b].data)
  \/ /\ Len(queryResults[a].data) = Len(queryResults[b].data)
     /\ \/ queryResults[a].executionTimeMs < queryResults[b].executionTimeMs
        \/ /\ queryResults[a].executionTimeMs = queryResults[b].executionTimeMs
           /\ a < b

\* the rows of result k that carry the identifier
RowsWithId(k, id) ==
  {r \in 1..Len(queryResults[k].data) : DerivedId(queryResults[k].data[r]) = id}

\* the position in its table of the row a combined row was taken from
TakenFrom(row) == Least(RowsWithId(SourceOf(row), DerivedId(row.item)))

\* C30: combineQueryResults emits the rows of a table with more rows before
\* those of a table with fewer (equal counts: the faster table first), keeps
\* the order of the rows within a table, gives every row the table of the
\* QueryResult it was taken from as source_table, and of the rows that share
\* an identifier keeps the one of the table ordered first
C30_CombinedOrderAndProvenance ==
  combined # Null =>
    /\ \A i \in 1..Len(combined.rows) :
         /\ SourceOf(combined.rows[i]) \in Eligible
         /\ RowsWithId(SourceOf(combined.rows[i]), DerivedId(combined.rows[i].item)) # {}
         /\ queryResults[SourceOf(combined.rows[i])].data[TakenFrom(combined.rows[i])]
              = combined.rows[i].item
         /\ \A k \in Eligible :
              RowsWithId(k, DerivedId(combined.rows[i].item)) # {} =>
                (k = SourceOf(combined.rows[i]) \/ OrderedBefore(SourceOf(combined.rows[i]), k))
    /\ \A i, j \in 1..Len(combined.rows) :
         i < j =>
           IF SourceOf(combined.rows[i]) = SourceOf(combined.rows[j])
           THEN TakenFrom(combined.rows[i]) < TakenFrom(combined.rows[j])
           ELSE OrderedBefore(SourceOf(combined.rows[i]), SourceOf(combined.rows[j]))

\* two tables with as many rows each and one identifier in common were
\* combined: the faster one, handed over second, comes first and keeps the
\* shared row, and more than one of its rows was emitted
C30_Witness ==
  /\ combined # Null
  /\ Len(queryResults) = 2
  /\ Eligible = {1, 2}
  /\ Len(queryResults[1].data) = Len(queryResults[2].data)
  /\ queryResults[2].executionTimeMs < queryResults[1].executionTimeMs
  /\ \E r \in 1..Len(queryResults[1].data) :
       RowsWithId(2, DerivedId(queryResults[1].data[r])) # {}
  /\ Len(combined.rows) >= 3
  /\ SourceOf(combined.rows[1]) = 2
  /\ SourceOf(combined.rows[2]) = 2
  /\ SourceOf(combined.rows[Len(combined.rows)]) = 1

-----------------------------------------------------------------------------
(* The summary of the rows, and the answer when there are none             *)

\* the suggestions that go with an intent type
SuggestionsFor(type) ==
  CASE type = Str(QueryType.knowledge_search) ->
         "Try searching for more general topics or check our main categories."
    [] type = Str(QueryType.chat_search) ->
         "Try looking for specific conversation topics or time periods."
    [] OTHER ->
         "Try using different keywords or being more specific in your search."

\* C31: with an empty combined list smartSearch makes no completion call for
\* a summary and answers with the no-results message, which is determined
\* by the query and the intent type; with rows, when the completion call
\* fails or has empty content, the templated fallback summary is returned
\* and the outcome is a success with dataUsed true
C31_NoRowsNoSummaryCallAndFallbackSummary ==
  Done =>
    /\ (~IsFailureOutcome(req.outcome) /\ req.outcome.results = <<>>) =>
         /\ req.completion = "none"
         /\ req.outcome.naturalResponse = "createNoResultsResponse"
         /\ req.outcome.noResults.userQuery = req.userQuery
         /\ req.outcome.noResults.suggestions = SuggestionsFor(req.analysis.type)
         /\ req.outcome.noResults.template # ""
    /\ req.completion \in {"throws", "empty"} =>
         /\ ~IsFailureOutcome(req.outcome)
         /\ ~req.exception.thrown
         /\ req.outcome.results # <<>>
         /\ req.outcome.naturalResponse = "createFallbackResponse"
         /\ req.outcome.dataUsed

\* rows were found and the completion came back with empty content
C31_Witness ==
  /\ Done
  /\ req.completion = "empty"
  /\ req.outcome.dataUsed
  /\ req.outcome.naturalResponse = "createFallbackResponse"

\* no rows were found for a chat query: the no-results answer was given
C31_NoRowsAnswered ==
  /\ Done
  /\ ~IsFailureOutcome(req.outcome)
  /\ req.outcome.results = <<>>
  /\ req.analysis.type = Str(QueryType.chat_search)

-----------------------------------------------------------------------------
(* A discovery pass of SchemaIntrospector in which a columns query fails   *)

\* the tables of the catalog listing whose columns query answered, in order
Introspected(listed, skipped) == SelectSeq(listed, LAMBDA t : t \notin skipped)

\* C32: when the columns query of a table fails during a pass of getSchema,
\* that table is left out and every other listed table whose columns query
\* answered is in the resulting schema; the pass ends as a success and its
\* result is the cached snapshot
C32_FailedTableOmittedOthersKept ==
  (lastEvent.kind = "finished" /\ lastEvent.skipped # {}) =>
    /\ SchemaNames(lastEvent.ret.tables) = Introspected(lastEvent.listed, lastEvent.skipped)
    /\ \A t \in lastEvent.skipped :
         \A i \in 1..Len(lastEvent.ret.tables) : lastEvent.ret.tables[i].table_name # t
    /\ schemaCache = lastEvent.ret

\* a pass over two tables ended in which the columns query of the second
\* failed: the first is in the schema, which is cached
C32_Witness ==
  /\ lastEvent.kind = "finished"
  /\ Len(lastEvent.listed) = 2
  /\ lastEvent.skipped = {lastEvent.listed[2]}
  /\ Len(lastEvent.ret.tables) = 1
  /\ schemaCache = lastEvent.ret

-----------------------------------------------------------------------------
(* The strategy of an intent type, and what searchTable does under it      *)

UserIntents == {QueryType.user_search, QueryType.profile_search}

\* the intent types the switch of getOptimizedStrategy has a case for
KnownIntents ==
  { QueryType.news_search, QueryType.article_search, QueryType.knowledge_search,
    QueryType.document_search, QueryType.user_search, QueryType.profile_search,
    QueryType.broad_search, QueryType.general_search }

\* C33: under the strategy of user_search and profile_search (fuzzy matching
\* off, maxResults 5) searchTable issues no case-insensitive contains query
\* built from the search terms and returns at most 5 rows; for an intent
\* type it does not know getOptimizedStrategy returns the default strategy
\* (exact and fuzzy on, at most 20 rows, recent rows first)
C33_UserIntentStrategyAndDefault ==
  (search # Null /\ search.pc = "done") =>
    /\ toLowerCase(search.queryType) \in UserIntents =>
         /\ ~search.strategy.useFuzzySearch
         /\ search.strategy.maxResults = 5
         /\ \A i \in 1..Len(search.log) : search.log[i].stage \notin {"fuzzy", "partial"}
         /\ Len(search.result.data) <= 5
    /\ toLowerCase(search.queryType) \notin KnownIntents =>
         /\ search.strategy.useExactMatch
         /\ search.strategy.useFuzzySearch
         /\ ~search.strategy.useFullTextSearch
         /\ search.strategy.maxResults = 20
         /\ search.strategy.prioritizeRecent

\* a user_search call on a table of six rows has returned five of them
C33_Witness ==
  /\ search # Null /\ search.pc = "done"
  /\ search.queryType = QueryType.user_search
  /\ Len(RowsIn[search.table]) > 5
  /\ Len(search.result.data) = 5

\* a call with an unknown intent type returned more than five rows
C33_DefaultReturnsMore ==
  /\ search # Null /\ search.pc = "done"
  /\ search.queryType = QueryType.general
  /\ Len(search.result.data) > 5

-----------------------------------------------------------------------------
(* The caches of DatabaseSchemaService when a pass has ended               *)

\* the tables whose cached schema or mapping is served as valid
ServedAsValid ==
  IF isCacheValid(dss.lastCacheUpdate, dss.clock)
  THEN DOMAIN dss.schemaCache \cup DOMAIN dss.mappingCache
  ELSE {}

RefreshLeavesLatestPassOnly ==
  dss.event.kind = "discovered" =>
    /\ dss.event.schemas \subseteq DOMAIN dss.schemaCache
    /\ dss.event.schemas \subseteq DOMAIN dss.mappingCache
    /\ dss.event.op = "refreshSchema" => ServedAsValid = dss.event.schemas

-----------------------------------------------------------------------------
(* The broad search of searchTable                                         *)

\* the finished searchTable issued the select of executeBroadSearch
BroadIssued ==
  /\ search # Null /\ search.pc = "done"
  /\ \E i \in 1..Len(search.log) : search.log[i].stage = "broad"

\* strategy `index` of the finished searchTable threw or returned no rows
YieldedNothing(index) ==
  LET out == RunStage(index, search.table, search.result.columnsSearched, search.terms,
                      search.strategy, search.failing, <<>>)
  IN  out.thrown \/ out.data = <<>>

\* C35: the broad query of searchTable is issued only after the exact
\* strategy (if enabled), the fuzzy strategy (if enabled) and the
\* partial-word strategy have each returned no rows or failed; it is the
\* last select of the call, it filters by no term (it returns the whole
\* table up to its limit), and it returns at most min(maxResults, 10) rows
C35_BroadLastUnfilteredAndCapped ==
  BroadIssued =>
    /\ \A i \in 1..Len(search.log) : search.log[i].stage = "broad" <=> i = Len(search.log)
    /\ \A index \in 1..(Len(StageNames) - 1) :
         ~Skipped(index, search.strategy) => YieldedNothing(index)
    /\ Len(search.result.data) <= Min(search.strategy.maxResults, BroadLimit)
    /\ "broad" \notin search.failing =>
         Len(search.result.data) =
           Min(Len(RowsIn[search.table]), Min(search.strategy.maxResults, BroadLimit))

\* a search for a term ended in the broad query on a table of more than ten
\* rows with maxResults above ten, and ten rows came back
C35_Witness ==
  /\ BroadIssued
  /\ search.terms # <<>>
  /\ search.strategy.maxResults > BroadLimit
  /\ Len(RowsIn[search.table]) > BroadLimit
  /\ Len(search.result.data) = BroadLimit

-----------------------------------------------------------------------------
(* refreshSchema of the service and the schema the next search reads       *)

\* the request that follows a refreshSchema() has made a search attempt
SearchedAfterRefresh ==
  /\ svc # Null /\ svc.refreshed # Null
  /\ req # Null /\ req.attempts > 0

\* C36: after refreshSchema() of the service has returned true, the next
\* smartSearch selects its tables and columns from the schema this refresh
\* wrote: the introspector cache the search path reads is the one the
\* refresh filled
C36_SearchReadsRefreshedSchema ==
  SearchedAfterRefresh => builderCache = svc.refreshed

-----------------------------------------------------------------------------
(* Rows of different tables that share a derived identifier                *)

\* the rows handed to combineQueryResults: (result, position)
InputRows ==
  {<<k, r>> \in (1..Len(queryResults)) \X (1..(MaxCombined + MaxCombined)) :
     r <= Len(queryResults[k].data)}

\* the combined rows taken from result k that carry the identifier
KeptOf(k, id) ==
  {i \in 1..Len(combined.rows) :
     /\ combined.rows[i]._metadata.source_table = queryResults[k].tableName
     /\ DerivedId(combined.rows[i].item) = id}

RowKeptUnlessIdentifierSeen ==
  (combined # Null /\ Cardinality(InputRows) <= MaxCombined) =>
    \A k \in 1..Len(queryResults) :
      queryResults[k].error = Null =>
        \A r \in 1..Len(queryResults[k].data) :
          \E i \in 1..Len(combined.rows) :
            DerivedId(combined.rows[i].item) = DerivedId(queryResults[k].data[r])

-----------------------------------------------------------------------------
(* tablesSearched of the returned outcome                                  *)

\* the request has returned the object built at the end of the try block
\* of smartSearch
ReturnedAfterSearch ==
  /\ req # Null /\ req.pc = "done"
  /\ req.attempts > 0
  /\ ~req.exception.thrown

\* the tables on which searchTable was called during the request
AttemptedTables == {req.attempted[i] : i \in 1..Len(req.attempted)}

ListedTables ==
  {req.outcome.tablesSearched[i] : i \in 1..Len(req.outcome.tablesSearched)}

\* C38: tablesSearched of the returned outcome lists every table on which a
\* search was attempted during the request, those whose search returned no
\* rows or failed included, and no table that was not attempted
C38_TablesSearchedListsEveryAttempt ==
  ReturnedAfterSearch => ListedTables = AttemptedTables

\* what holds instead: tablesSearched lists the attempted tables whose
\* search returned rows, and no other
TablesSearchedListsTablesWithRows ==
  ReturnedAfterSearch =>
    /\ ListedTables \subseteq AttemptedTables
    /\ ListedTables = {req.queryResults[i].tableName : i \in 1..Len(req.queryResults)}
    /\ \A i \in 1..Len(req.queryResults) : req.queryResults[i].data # <<>>

-----------------------------------------------------------------------------
(* The column names a ColumnMapping holds                                  *)

\* the names of the columns of the TableSchema passed, as the database
\* spells them
ColumnNamesAsSpelled == {call.columns[i].name : i \in 1..Len(call.columns)}

MappingValues ==
  {returned.value.mappings[i].column : i \in 1..Len(returned.value.mappings)}

SearchableColumns ==
  {returned.value.searchableColumns[i] : i \in 1..Len(returned.value.searchableColumns)}

NoDuplicates(list) == \A i, j \in 1..Len(list) : list[i] = list[j] => i = j

\* C39: every value of the mappings of a ColumnMapping and every entry of
\* its searchableColumns and displayColumns is the name of a column of the
\* TableSchema it was built from, in the same spelling and case, and
\* searchableColumns and displayColumns hold no entry twice
C39_MappingHoldsExactColumnNames ==
  (returned # Null /\ call.fn = "createColumnMapping") =>
    /\ MappingValues \subseteq ColumnNamesAsSpelled
    /\ SearchableColumns \subseteq ColumnNamesAsSpelled
    /\ DisplayColumns \subseteq ColumnNamesAsSpelled
    /\ NoDuplicates(returned.value.searchableColumns)
    /\ NoDuplicates(returned.value.displayColumns)

\* what holds instead: every entry is the name of a column up to case, and
\* no entry is there twice in the same spelling
MappingHoldsColumnNamesUpToCase ==
  (returned # Null /\ call.fn = "createColumnMapping") =>
    /\ MappingValues \subseteq ActualNames
    /\ \A c \in SearchableColumns \cup DisplayColumns : toLowerCase(c) \in ActualNames
    /\ NoDuplicates(returned.value.searchableColumns)
    /\ NoDuplicates(returned.value.displayColumns)

=============================================================================
